---- MODULE Spec2Model ----
(***************************************************************************)
(* FAIR simulator front end: the point-estimate calculators, the Monte     *)
(* Carlo loops of the scenario detail view and of the sensitivity panel,   *)
(* the Dashboard's client-side portfolio metrics with their rendering in   *)
(* AggregatedMetrics, and the documented hybrid Poisson-Bernoulli event    *)
(* draw of the risk service.                                               *)
(*                                                                         *)
(* JavaScript numbers are modelled as exact fractions [n, d] in lowest     *)
(* terms (d > 0).  Every conversion the code makes (x / 100, x * 0.3,      *)
(* Math.floor, sort) is computed on these fractions.                       *)
(***************************************************************************)
EXTENDS Integers, Sequences, FiniteSets, TLC

VARIABLES
    \* App.tsx / Dashboard.tsx
    view,              \* 'dashboard' | 'create'
    scenarios,         \* App: useState<RiskScenario[]>
    created,           \* number of scenarios created so far (source of fresh ids)
    loading,           \* Dashboard: useState(true)
    calculations,      \* Dashboard: Record<id, {ale, lef, slee}>
    portfolioMetrics,  \* Dashboard: useState<any>(null)
    selectedScenario,  \* Dashboard: id of the scenario shown in the detail modal
    clipboard,         \* text written by AggregatedMetrics.copyFormulas
    requests,          \* fairApi.portfolioMetrics calls the mounted Dashboard awaits
    stale,             \* the latest such call an unmounted Dashboard left behind (by ids)
    \* ScenarioDetail.tsx / SensitivityAnalysis.tsx
    editedScenario,    \* ScenarioDetail: useState(scenario)
    simulations,       \* ScenarioDetail: useState(10000)
    panel,             \* last point-estimate panel computed from editedScenario
    mcRun,             \* which Monte Carlo loop ran last
    mcTrace,           \* the per-iteration samples of that loop
    results,           \* the array the loop returned
    lecData,           \* ScenarioDetail: the points of the loss exceedance curve
    percentiles,       \* the percentiles read off results
    \* risk service sampler (documented in the scope notes), one entry per iteration
    expectedEvents,    \* expected_events of the iteration
    branch,            \* which draw the iteration took: "bernoulli" or "poisson"
    events,            \* the event count drawn
    \* ScenarioCreation (the wizard)
    currentStep,       \* useState<Step>('metadata')
    formData,          \* useState({...})
    \* useFairCalculation
    state,             \* useState<CalculationState>
    calls,             \* the calculate() calls made so far, each with its outcome
    \* SensitivityAnalysis
    analysis,          \* selectedFactor, mode, rangeMin, rangeMax, jointMode, coupledFactor,
                       \* targetALE, showGlobalTab
    \* RangeInput
    rangeInput,        \* the props p10, p50, p90, isEditing, tempValues, and what
                       \* onChange was last called with
    \* ScenarioDetail
    editMode,          \* useState(false)
    \* ScenarioList
    scenarioList       \* the scenarios prop (by industry), benchmarks,
                       \* loadingBenchmarks and the fetchBenchmarks run in flight

appVars == <<view, scenarios, created, loading, calculations, portfolioMetrics,
             selectedScenario, clipboard, requests, stale>>
detailVars == <<editedScenario, simulations, panel, mcRun, mcTrace, results, lecData,
               percentiles>>
samplerVars == <<expectedEvents, branch, events>>
wizardVars == <<currentStep, formData>>
hookVars == <<state, calls>>
widgetVars == <<rangeInput, editMode, scenarioList>>
vars == <<appVars, detailVars, samplerVars, wizardVars, hookVars, analysis, widgetVars>>

\* what the handlers of one component leave alone
notAppVars == <<detailVars, samplerVars, wizardVars, hookVars, analysis, widgetVars>>
notDetailVars == <<appVars, samplerVars, wizardVars, hookVars, analysis, widgetVars>>
notSamplerVars == <<appVars, detailVars, wizardVars, hookVars, analysis, widgetVars>>
notWizardVars == <<detailVars, samplerVars, hookVars, analysis, widgetVars>>
notHookVars == <<appVars, detailVars, samplerVars, wizardVars, analysis, widgetVars>>
notWidgetVars == <<appVars, detailVars, samplerVars, wizardVars, hookVars, analysis>>


(***************************************************************************)
(* Numbers                                                                 *)
(***************************************************************************)
Abs(x) == IF x < 0 THEN -x ELSE x

RECURSIVE GCD(_, _)
GCD(a, b) == IF b = 0 THEN a ELSE GCD(b, a % b)

LCM(a, b) == (a \div GCD(a, b)) * b

\* the number n/d (d # 0) in lowest terms
Frac(n, d) ==
    LET g == GCD(Abs(n), Abs(d))
        s == IF d < 0 THEN -1 ELSE 1
    IN  [n |-> s * (n \div g), d |-> s * (d \div g)]

Num(k) == [n |-> k, d |-> 1]
Zero == Num(0)

Plus(a, b) ==
    LET l == LCM(a.d, b.d)
    IN  Frac(a.n * (l \div a.d) + b.n * (l \div b.d), l)

Minus(a, b) == Plus(a, [n |-> -b.n, d |-> b.d])

\* cross-cancelled so that intermediate products stay small
Times(a, b) ==
    LET g1 == GCD(Abs(a.n), b.d)
        g2 == GCD(Abs(b.n), a.d)
    IN  IF a.n = 0 \/ b.n = 0 THEN Zero
        ELSE Frac((a.n \div g1) * (b.n \div g2), (a.d \div g2) * (b.d \div g1))

\* a / b for b # 0
Over(a, b) == Times(a, Frac(b.d, b.n))

Less(a, b) ==
    LET l == LCM(a.d, b.d)
    IN  a.n * (l \div a.d) < b.n * (l \div b.d)

Leq(a, b) == a = b \/ Less(a, b)

\* Math.floor
Floor(a) == a.n \div a.d

RECURSIVE SumSeq(_)
SumSeq(q) == IF q = <<>> THEN Zero ELSE Plus(Head(q), SumSeq(Tail(q)))

Hundred == Num(100)

\* x.toFixed(k) for x >= 0, as the integer number of 10^-k units
RECURSIVE Pow10(_)
Pow10(k) == IF k = 0 THEN 1 ELSE 10 * Pow10(k - 1)

ToFixed(x, k) == Floor(Plus(Times(x, Num(Pow10(k))), Frac(1, 2)))

\* Math.round
Round(x) == Floor(Plus(x, Frac(1, 2)))

(***************************************************************************)
(* Scenarios (App.tsx, interface RiskScenario).  The nine FAIR factors are *)
(* numbers; susceptibility and slef are percentages.                       *)
(***************************************************************************)
Scenario(id, tef, susc, prod, resp, repl, fines, comp, rep, slef) ==
    [id |-> id,
     threatEventFrequency |-> tef, susceptibility |-> susc,
     productivity |-> prod, response |-> resp, replacement |-> repl,
     fines |-> fines, competitiveAdvantage |-> comp, reputation |-> rep,
     slef |-> slef]

FAIRFactor == {"threatEventFrequency", "susceptibility", "productivity", "response",
               "replacement", "fines", "competitiveAdvantage", "reputation", "slef"}

\* values a factor's input field is given in the model
FieldValues(f) ==
    CASE f = "threatEventFrequency" -> {Num(0), Num(2)}
      [] f = "susceptibility"       -> {Num(0), Num(50), Num(100)}
      [] f = "slef"                 -> {Num(0), Num(50), Num(100)}
      [] f = "productivity"         -> {Num(0), Num(4)}
      [] f = "response"             -> {Num(0), Num(2)}
      [] f = "replacement"          -> {Num(0), Num(1)}
      [] f = "fines"                -> {Num(0), Num(5)}
      [] f = "competitiveAdvantage" -> {Num(0), Num(3)}
      [] f = "reputation"           -> {Num(0), Num(2)}

AllZeroLoss(s) ==
    /\ s.productivity = Zero /\ s.response = Zero /\ s.replacement = Zero
    /\ s.fines = Zero /\ s.competitiveAdvantage = Zero /\ s.reputation = Zero

(***************************************************************************)
(* useFairCalculation.ts: calculateClientSide                              *)
(***************************************************************************)
calculateClientSide(scenario) ==
    LET lef == Times(scenario.threatEventFrequency, Over(scenario.susceptibility, Hundred))
        primaryLoss == Plus(Plus(scenario.productivity, scenario.response),
                            scenario.replacement)
        secondaryLoss == Plus(Plus(scenario.fines, scenario.competitiveAdvantage),
                              scenario.reputation)
        slee == Plus(primaryLoss, Times(secondaryLoss, Over(scenario.slef, Hundred)))
        ale == Times(lef, slee)
    IN  [lef |-> lef, slee |-> slee, ale |-> ale,
         ale_p10 |-> Times(ale, Frac(3, 10)),
         ale_p50 |-> ale,
         ale_p90 |-> Times(ale, Frac(25, 10)),
         ale_p95 |-> Times(ale, Frac(35, 10)),
         ale_p99 |-> Times(ale, Num(5))]

(***************************************************************************)
(* ScenarioDetail.tsx: the point estimates shown in the detail view        *)
(***************************************************************************)
Detail_calculatePrimaryLoss(s) == Plus(Plus(s.productivity, s.response), s.replacement)

Detail_calculateSecondaryLoss(s) == Plus(Plus(s.fines, s.competitiveAdvantage), s.reputation)

Detail_calculateSLEE(s) ==
    LET primaryLoss == Detail_calculatePrimaryLoss(s)
        secondaryLoss == Detail_calculateSecondaryLoss(s)
    IN  Plus(primaryLoss, Times(secondaryLoss, Over(s.slef, Hundred)))

Detail_calculateLEF(s) == Times(s.threatEventFrequency, Over(s.susceptibility, Hundred))

Detail_calculateALE(s) == Times(Detail_calculateLEF(s), Detail_calculateSLEE(s))

(***************************************************************************)
(* SensitivityAnalysis.tsx: baseline calculators.  (x || 0) replaces a     *)
(* missing or zero field by 0.                                             *)
(***************************************************************************)
OrZero(x) == IF x = Zero THEN Zero ELSE x

Sens_calculatePrimaryLoss(s) ==
    Plus(Plus(OrZero(s.productivity), OrZero(s.response)), OrZero(s.replacement))

Sens_calculateSecondaryLoss(s) ==
    Plus(Plus(OrZero(s.fines), OrZero(s.competitiveAdvantage)), OrZero(s.reputation))

\* faulty variant: the SLEF gate left out of the loss magnitude
Sens_calculateLM_ungated(primaryLoss, secondaryLoss, slef) ==
    Plus(primaryLoss, secondaryLoss)

Sens_calculateLM(primaryLoss, secondaryLoss, slef) ==
    Plus(primaryLoss, Times(secondaryLoss, Over(slef, Hundred)))

Sens_calculateLEF(threatEventFrequency, susceptibility) ==
    Times(threatEventFrequency, Over(susceptibility, Hundred))

Sens_calculateALE(lef, slee) == Times(lef, slee)

\* baselineALE as computed on render (and by calculateElasticity)
Sens_baseline(scenario) ==
    LET baselineLEF == Sens_calculateLEF(scenario.threatEventFrequency,
                                         scenario.susceptibility)
        baselineSLEE == Sens_calculateLM(Sens_calculatePrimaryLoss(scenario),
                                         Sens_calculateSecondaryLoss(scenario),
                                         scenario.slef)
    IN  [lef |-> baselineLEF, lm |-> baselineSLEE,
         ale |-> Sens_calculateALE(baselineLEF, baselineSLEE)]

(***************************************************************************)
(* SLEFGate.tsx and DriverChart.tsx: the expected-value split of LM        *)
(***************************************************************************)
\* faulty variant: slef used as a probability without the division by 100
SLEFGate_percent(scenario) ==
    LET slefProbability == scenario.slef
        primaryLoss == Plus(Plus(scenario.productivity, scenario.response),
                            scenario.replacement)
        secondaryLoss == Plus(Plus(scenario.fines, scenario.competitiveAdvantage),
                              scenario.reputation)
    IN  [primary |-> primaryLoss,
         secondary |-> Times(secondaryLoss, slefProbability),
         lm |-> Plus(primaryLoss, Times(secondaryLoss, slefProbability))]

SLEFGate(scenario) ==
    LET slefProbability == Over(scenario.slef, Hundred)
        primaryLoss == Plus(Plus(scenario.productivity, scenario.response),
                            scenario.replacement)
        secondaryLoss == Plus(Plus(scenario.fines, scenario.competitiveAdvantage),
                              scenario.reputation)
    IN  [primary |-> primaryLoss,
         secondary |-> Times(secondaryLoss, slefProbability),
         lm |-> Plus(primaryLoss, Times(secondaryLoss, slefProbability))]

DriverChart(scenario) ==
    LET primaryLoss == Plus(Plus(scenario.productivity, scenario.response),
                            scenario.replacement)
        secondaryLoss == Plus(Plus(scenario.fines, scenario.competitiveAdvantage),
                              scenario.reputation)
        slefProbability == Over(scenario.slef, Hundred)
        expectedSecondaryLoss == Times(secondaryLoss, slefProbability)
        totalLM == Plus(primaryLoss, expectedSecondaryLoss)
    IN  [lef |-> Times(scenario.threatEventFrequency,
                       Over(scenario.susceptibility, Hundred)),
         primary |-> primaryLoss,
         secondary |-> expectedSecondaryLoss,
         lm |-> totalLM]

(***************************************************************************)
(* Monte Carlo loops.  Math.random() returns a value in [0, 1); one        *)
(* iteration consumes five of them, in the order tef, susceptibility,      *)
(* primary, secondary, slef.                                               *)
(***************************************************************************)
MaxSimulations == 51
MaxPointIterations == 2

\* generateLEC: 50 data points
LecPoints == 50

\* values typed into the runs input: none or 0, 1, and counts from 50 on
SimulationCounts == {0, 1} \cup LecPoints..MaxSimulations

\* the five Math.random() values of one iteration, from a small set of tuples
\* over the values 0 and 0.75 (variations 0.8 and 1.1)
Lo == Zero
Hi == Frac(3, 4)

IterationDraws ==
    {<<Lo, Lo, Lo, Lo, Lo>>,
     <<Hi, Hi, Hi, Hi, Hi>>,
     <<Lo, Hi, Lo, Lo, Hi>>,
     <<Hi, Lo, Hi, Hi, Lo>>,
     <<Lo, Lo, Hi, Lo, Lo>>}

\* the Math.random() values of a whole loop: IterationDraws repeating in pairs
DrawPatterns ==
    {<<d, d>> : d \in IterationDraws}
    \cup {<<<<Lo, Lo, Lo, Lo, Lo>>, <<Hi, Hi, Hi, Hi, Hi>>>>,
          <<<<Lo, Hi, Lo, Lo, Hi>>, <<Hi, Lo, Hi, Hi, Lo>>>>,
          <<<<Lo, Lo, Hi, Lo, Lo>>, <<Lo, Lo, Lo, Lo, Lo>>>>}

DrawSequences(n) ==
    {[i \in 1..n |-> IF i % 2 = 1 THEN p[1] ELSE p[2]] : p \in DrawPatterns}

\* (0.8 + Math.random() * 0.4)
Variation(r) == Plus(Frac(8, 10), Times(r, Frac(4, 10)))

\* Array.prototype.sort((a, b) => a - b): ascending
RECURSIVE InsertAscending(_, _)
InsertAscending(x, q) ==
    IF q = <<>> THEN <<x>>
    ELSE IF Leq(x, Head(q)) THEN <<x>> \o q
    ELSE <<Head(q)>> \o InsertAscending(x, Tail(q))

RECURSIVE SortAscending(_)
SortAscending(q) ==
    IF q = <<>> THEN <<>> ELSE InsertAscending(Head(q), SortAscending(Tail(q)))

Reverse(q) == [i \in 1..Len(q) |-> q[Len(q) + 1 - i]]

\* Array.prototype.sort((a, b) => b - a): descending
SortDescending(q) == Reverse(SortAscending(q))

\* the value of an array read outside its bounds
Undefined == [undefined |-> TRUE]

\* results[Math.floor(results.length * q)], results indexed from 0
AtFloor(res, q) ==
    LET i == Floor(Times(Num(Len(res)), q)) + 1
    IN  IF i \in 1..Len(res) THEN res[i] ELSE Undefined

\* faulty variant: the variation added to the primary loss instead of scaling it
Detail_iteration_additive(s, u) ==
    LET tefVariation == Times(s.threatEventFrequency, Variation(u[1]))
        suscVariation == Times(s.susceptibility, Variation(u[2]))
        primaryVariation == Plus(Detail_calculatePrimaryLoss(s), Variation(u[3]))
        secondaryVariation == Times(Detail_calculateSecondaryLoss(s), Variation(u[4]))
        slefVariation == Times(s.slef, Variation(u[5]))
        lef == Times(tefVariation, Over(suscVariation, Hundred))
        slee == Plus(primaryVariation,
                     Times(secondaryVariation, Over(slefVariation, Hundred)))
        ale == Times(lef, slee)
    IN  [susceptibility |-> Over(suscVariation, Hundred),
         slef |-> Over(slefVariation, Hundred),
         primary |-> primaryVariation,
         secondarySubtotal |-> secondaryVariation,
         secondary |-> Times(secondaryVariation, Over(slefVariation, Hundred)),
         slee |-> slee,
         ale |-> ale]

\* ScenarioDetail.runMonteCarloSimulation, one pass of the loop body
Detail_iteration(s, u) ==
    LET tefVariation == Times(s.threatEventFrequency, Variation(u[1]))
        suscVariation == Times(s.susceptibility, Variation(u[2]))
        primaryVariation == Times(Detail_calculatePrimaryLoss(s), Variation(u[3]))
        secondaryVariation == Times(Detail_calculateSecondaryLoss(s), Variation(u[4]))
        slefVariation == Times(s.slef, Variation(u[5]))
        lef == Times(tefVariation, Over(suscVariation, Hundred))
        slee == Plus(primaryVariation,
                     Times(secondaryVariation, Over(slefVariation, Hundred)))
        ale == Times(lef, slee)
    IN  [susceptibility |-> Over(suscVariation, Hundred),
         slef |-> Over(slefVariation, Hundred),
         primary |-> primaryVariation,
         secondarySubtotal |-> secondaryVariation,
         secondary |-> Times(secondaryVariation, Over(slefVariation, Hundred)),
         slee |-> slee,
         ale |-> ale]

\* SensitivityAnalysis.runMonteCarloForPoint, one pass of the loop body
Sens_iteration(testScenario, u) ==
    LET tefVariation == Times(OrZero(testScenario.threatEventFrequency), Variation(u[1]))
        suscVariation == Times(OrZero(testScenario.susceptibility), Variation(u[2]))
        primaryVariation == Times(Sens_calculatePrimaryLoss(testScenario), Variation(u[3]))
        secondaryVariation == Times(Sens_calculateSecondaryLoss(testScenario),
                                    Variation(u[4]))
        slefVariation == Times(OrZero(testScenario.slef), Variation(u[5]))
        lef == Sens_calculateLEF(tefVariation, suscVariation)
        slee == Sens_calculateLM(primaryVariation, secondaryVariation, slefVariation)
        ale == Sens_calculateALE(lef, slee)
    IN  [susceptibility |-> Over(suscVariation, Hundred),
         slef |-> Over(slefVariation, Hundred),
         primary |-> primaryVariation,
         secondarySubtotal |-> secondaryVariation,
         secondary |-> Minus(slee, primaryVariation),
         slee |-> slee,
         ale |-> ale]

\* the array of pushed ALE values, before the sort
Pushed(trace) == [i \in 1..Len(trace) |-> trace[i].ale]

\* ScenarioDetail: results.sort((a, b) => b - a)
Detail_sortResults(q) == SortDescending(q)

\* ScenarioDetail: p50, p90, p99 read off the returned array
Detail_percentiles(res) ==
    [p50 |-> AtFloor(res, Frac(5, 10)),
     p90 |-> AtFloor(res, Frac(1, 10)),
     p99 |-> AtFloor(res, Frac(1, 100))]

\* ScenarioDetail.generateLEC: step = Math.floor(results.length / 50); the loop
\* for (i = 0; i < results.length; i += step) ends only if it is not entered or
\* step > 0
LEC_terminates(res) == Len(res) = 0 \/ Len(res) \div LecPoints > 0

\* the points pushed by the loop, when it ends
LEC_points(res) ==
    IF Len(res) = 0 THEN <<>>
    ELSE LET step == Len(res) \div LecPoints
         IN  [k \in 1..((Len(res) - 1) \div step + 1) |->
                [probability |-> ToFixed(Frac((k - 1) * step * 100, Len(res)), 1),
                 loss |-> Round(res[(k - 1) * step + 1])]]

\* SensitivityAnalysis: results.sort((a, b) => a - b)
Sens_sortResults(q) == SortAscending(q)

\* SensitivityAnalysis: the band returned by runMonteCarloForPoint
Sens_percentiles(res) ==
    [p10 |-> AtFloor(res, Frac(1, 10)),
     p50 |-> AtFloor(res, Frac(5, 10)),
     p90 |-> AtFloor(res, Frac(9, 10))]

(***************************************************************************)
(* Idle values of the three groups of variables                            *)
(***************************************************************************)
NoMetrics == [source |-> "null"]
NoPanel == [by |-> "none"]
NoPercentiles == [by |-> "none"]
NoScenario == [id |-> 0]
NoText == [written |-> FALSE]
NoAnalysis == [mounted |-> FALSE]
NoRequest == [pending |-> FALSE]

AppIdle ==
    /\ view = "dashboard"
    /\ scenarios = <<>>
    /\ created = 0
    /\ loading = FALSE
    /\ calculations = <<>>
    /\ portfolioMetrics = NoMetrics
    /\ selectedScenario = NoScenario
    /\ clipboard = NoText
    /\ requests = {}
    /\ stale = NoRequest

DetailIdle ==
    /\ editedScenario = NoScenario
    /\ simulations = 0
    /\ panel = NoPanel
    /\ mcRun = "none"
    /\ mcTrace = <<>>
    /\ results = <<>>
    /\ lecData = <<>>
    /\ percentiles = NoPercentiles
    /\ analysis = NoAnalysis

SamplerIdle ==
    /\ expectedEvents = <<>>
    /\ branch = <<>>
    /\ events = <<>>

NoStep == "unmounted"
NoForm == [mounted |-> FALSE]

WizardIdle ==
    /\ currentStep = NoStep
    /\ formData = NoForm

Null == [null |-> TRUE]

\* useState<CalculationState>({loading: false, error: null, result: null})
HookIdle ==
    /\ state = [loading |-> FALSE, error |-> Null, result |-> Null]
    /\ calls = <<>>

\* no RangeInput is mounted
NoRange == [mounted |-> FALSE]

\* no ScenarioList is mounted
NoList == [mounted |-> FALSE]

WidgetIdle == rangeInput = NoRange /\ editMode = FALSE /\ scenarioList = NoList

(***************************************************************************)
(* The scenario detail view: point-estimate panels                         *)
(***************************************************************************)
\* onChange of a factor's input: setEditedScenario({...editedScenario, f: Number(v)})
EditField(f, v) ==
    /\ editedScenario' = [editedScenario EXCEPT ![f] = v]
    /\ panel' = NoPanel
    /\ UNCHANGED <<simulations, mcRun, mcTrace, results, lecData,
                   percentiles>>
    /\ UNCHANGED notDetailVars

\* Dashboard fallback: calculateClientSide(scenario)
CalculateClientSide ==
    /\ mcRun # "hung"
    /\ LET r == calculateClientSide(editedScenario)
       IN  panel' = [by |-> "calculateClientSide", lef |-> r.lef, lm |-> r.slee,
                     ale |-> r.ale,
                     pcts |-> <<r.ale_p10, r.ale_p50, r.ale_p90, r.ale_p95, r.ale_p99>>]
    /\ UNCHANGED <<editedScenario, simulations, mcRun, mcTrace, results, lecData,
                   percentiles>>
    /\ UNCHANGED notDetailVars

\* ScenarioDetail render: ale, lef, slee of editedScenario
RenderScenarioDetail ==
    /\ panel' = [by |-> "ScenarioDetail",
                 lef |-> Detail_calculateLEF(editedScenario),
                 lm |-> Detail_calculateSLEE(editedScenario),
                 ale |-> Detail_calculateALE(editedScenario)]
    /\ UNCHANGED <<editedScenario, simulations, mcRun, mcTrace, results, lecData,
                   percentiles>>
    /\ UNCHANGED notDetailVars

\* SensitivityAnalysis render: baselineALE
RenderSensitivityAnalysis ==
    /\ LET r == Sens_baseline(editedScenario)
       IN  panel' = [by |-> "SensitivityAnalysis", lef |-> r.lef, lm |-> r.lm,
                     ale |-> r.ale]
    /\ UNCHANGED <<editedScenario, simulations, mcRun, mcTrace, results, lecData,
                   percentiles>>
    /\ UNCHANGED notDetailVars

RenderSLEFGate ==
    /\ LET r == SLEFGate(editedScenario)
       IN  panel' = [by |-> "SLEFGate", primary |-> r.primary,
                     secondary |-> r.secondary, lm |-> r.lm]
    /\ UNCHANGED <<editedScenario, simulations, mcRun, mcTrace, results, lecData,
                   percentiles>>
    /\ UNCHANGED notDetailVars

RenderDriverChart ==
    /\ LET r == DriverChart(editedScenario)
       IN  panel' = [by |-> "DriverChart", lef |-> r.lef, primary |-> r.primary,
                     secondary |-> r.secondary, lm |-> r.lm]
    /\ UNCHANGED <<editedScenario, simulations, mcRun, mcTrace, results, lecData,
                   percentiles>>
    /\ UNCHANGED notDetailVars

\* the scenario the detail view is opened on
InitCalc ==
    /\ AppIdle
    /\ SamplerIdle
    /\ WizardIdle
    /\ HookIdle
    /\ WidgetIdle
    /\ editedScenario \in {Scenario(1, Num(2), Num(50), Num(4), Num(2), Num(1),
                                    Num(5), Num(3), Num(2), Num(50))}
    /\ simulations = 1
    /\ panel = NoPanel
    /\ mcRun = "none"
    /\ mcTrace = <<>>
    /\ results = <<>>
    /\ lecData = <<>>
    /\ percentiles = NoPercentiles
    /\ analysis = NoAnalysis

NextCalc ==
    \/ \E f \in FAIRFactor : \E v \in FieldValues(f) : EditField(f, v)
    \/ CalculateClientSide
    \/ RenderScenarioDetail
    \/ RenderSensitivityAnalysis
    \/ RenderSLEFGate
    \/ RenderDriverChart

SpecCalc == InitCalc /\ [][NextCalc]_vars

(***************************************************************************)
(* The scenario detail view: Monte Carlo                                   *)
(***************************************************************************)
\* onChange of the runs input: setSimulations(Number(e.target.value))
SetSimulations(n) ==
    /\ mcRun = "none"
    /\ simulations' = n
    /\ UNCHANGED <<editedScenario, panel, mcRun, mcTrace, results, lecData,
                   percentiles>>
    /\ UNCHANGED notDetailVars

\* ScenarioDetail render: lecData = generateLEC(), which runs its own simulation;
\* then results = runMonteCarloSimulation() and p50, p90, p99.  When the loop of
\* generateLEC does not end, the render never returns.
RunMonteCarloSimulation ==
    /\ mcRun = "none"
    /\ \E lecDraws \in DrawSequences(simulations) :
       \E lecResults \in {Detail_sortResults(Pushed(
                [i \in 1..simulations |-> Detail_iteration(editedScenario, lecDraws[i])]))} :
         IF ~LEC_terminates(lecResults)
         THEN /\ mcRun' = "hung"
              /\ UNCHANGED <<mcTrace, results, lecData, percentiles>>
         ELSE \E draws \in DrawSequences(simulations) :
              \E trace \in {[i \in 1..simulations |->
                                Detail_iteration(editedScenario, draws[i])]} :
              \E res \in {Detail_sortResults(Pushed(trace))} :
                /\ lecData' = LEC_points(lecResults)
                /\ mcTrace' = trace
                /\ results' = res
                /\ percentiles' = [by |-> "detail"] @@ Detail_percentiles(res)
                /\ mcRun' = "detail"
    /\ UNCHANGED <<editedScenario, simulations, panel>>
    /\ UNCHANGED notDetailVars

\* SensitivityAnalysis.generateSensitivityData: runMonteCarloForPoint(testScenario)
RunMonteCarloForPoint ==
    /\ mcRun = "none"
    /\ \E iterations \in 1..MaxPointIterations :
       \E draws \in [1..iterations -> IterationDraws] :
       \E trace \in {[i \in 1..iterations |-> Sens_iteration(editedScenario, draws[i])]} :
       \E res \in {Sens_sortResults(Pushed(trace))} :
         /\ mcTrace' = trace
         /\ results' = res
         /\ percentiles' = [by |-> "sensitivity"] @@ Sens_percentiles(res)
    /\ mcRun' = "sensitivity"
    /\ UNCHANGED <<editedScenario, simulations, panel, lecData>>
    /\ UNCHANGED notDetailVars

\* the arrays and percentiles are locals of one render: the next render starts afresh
DiscardRender ==
    /\ mcRun \in {"detail", "sensitivity"}
    /\ mcRun' = "none"
    /\ mcTrace' = <<>>
    /\ results' = <<>>
    /\ lecData' = <<>>
    /\ percentiles' = NoPercentiles
    /\ UNCHANGED <<editedScenario, simulations, panel>>
    /\ UNCHANGED notDetailVars

DetailScenarios ==
    {Scenario(1, Num(2), Num(50), Num(4), Num(2), Num(1), Num(5), Num(3), Num(2), Num(50)),
     Scenario(2, Num(2), Num(100), Num(4), Num(0), Num(0), Num(5), Num(0), Num(0), Num(100)),
     Scenario(3, Num(2), Num(50), Num(0), Num(2), Num(0), Num(0), Num(3), Num(0), Num(0))}
    \cup {Scenario(4, tef, susc, Zero, Zero, Zero, Zero, Zero, Zero, Num(50)) :
            tef \in {Zero, Num(2)}, susc \in {Zero, Num(50), Num(100)}}

InitDetail ==
    /\ AppIdle
    /\ SamplerIdle
    /\ WizardIdle
    /\ HookIdle
    /\ WidgetIdle
    /\ editedScenario \in DetailScenarios
    /\ simulations = LecPoints
    /\ panel = NoPanel
    /\ mcRun = "none"
    /\ mcTrace = <<>>
    /\ results = <<>>
    /\ lecData = <<>>
    /\ percentiles = NoPercentiles
    /\ analysis = NoAnalysis

NextDetail ==
    \/ \E n \in SimulationCounts : SetSimulations(n)
    \/ RunMonteCarloSimulation
    \/ RunMonteCarloForPoint
    \/ DiscardRender
    \/ CalculateClientSide

SpecDetail == InitDetail /\ [][NextDetail]_vars

(***************************************************************************)
(* Properties of the point-estimate panels (SpecCalc)                      *)
(***************************************************************************)
PrimarySubtotal(s) == Plus(s.productivity, Plus(s.response, s.replacement))
SecondarySubtotal(s) == Plus(s.fines, Plus(s.competitiveAdvantage, s.reputation))
FairLEF(s) == Over(Times(s.threatEventFrequency, s.susceptibility), Hundred)
FairLM(s) == Plus(PrimarySubtotal(s), Over(Times(SecondarySubtotal(s), s.slef), Hundred))

PointEstimators == {"calculateClientSide", "ScenarioDetail", "SensitivityAnalysis"}

\* C1: whichever point-estimate calculator ran on the scenario, it returned
\* LEF = TEF x susceptibility/100, LM = primary + secondary x SLEF/100 and
\* ALE = LEF x LM; hence all calculators agree on the same scenario.
C1_CalculatorsAgree ==
    panel.by \in PointEstimators =>
        /\ panel.lef = FairLEF(editedScenario)
        /\ panel.lm = FairLM(editedScenario)
        /\ panel.ale = Times(FairLEF(editedScenario), FairLM(editedScenario))

C1_Witness ==
    /\ panel.by = "SensitivityAnalysis"
    /\ editedScenario.slef = Num(50)
    /\ SecondarySubtotal(editedScenario) = Num(10)
    /\ PrimarySubtotal(editedScenario) = Num(7)
    /\ panel.ale = Num(12)

\* C6: with SLEF = 0 every panel's loss magnitude is the primary subtotal and its
\* secondary contribution is 0; with SLEF = 100 the secondary contribution is the
\* full secondary subtotal and LM = primary + secondary subtotal.
C6_SlefGateEnds ==
    panel.by # "none" =>
        LET s == editedScenario
            showsSplit == panel.by \in {"SLEFGate", "DriverChart"}
        IN  /\ s.slef = Zero =>
                /\ panel.lm = PrimarySubtotal(s)
                /\ showsSplit => panel.secondary = Zero
            /\ s.slef = Hundred =>
                /\ panel.lm = Plus(PrimarySubtotal(s), SecondarySubtotal(s))
                /\ showsSplit => panel.secondary = SecondarySubtotal(s)

C6_Witness ==
    /\ panel.by = "SLEFGate"
    /\ editedScenario.slef = Hundred
    /\ panel.secondary = Num(10)
    /\ panel.lm = Num(17)

(***************************************************************************)
(* Properties of the Monte Carlo loops (SpecDetail)                        *)
(***************************************************************************)
AllZero(q) == \A i \in 1..Len(q) : q[i] = Zero

\* C5: when all six loss forms are 0, the client-side ALE and its five
\* percentiles, and every sample of the scenario-detail Monte Carlo, with the
\* percentiles and curve losses read off the samples, are exactly 0, whatever
\* TEF and susceptibility are.
C5_ZeroLoss ==
    AllZeroLoss(editedScenario) =>
        /\ panel.by = "calculateClientSide" => panel.ale = Zero /\ AllZero(panel.pcts)
        /\ mcRun = "detail" =>
            /\ AllZero(results)
            /\ \A k \in 1..Len(lecData) : lecData[k].loss = 0
            /\ Len(results) > 0 =>
                percentiles.p50 = Zero /\ percentiles.p90 = Zero /\ percentiles.p99 = Zero

C5_Witness ==
    /\ AllZeroLoss(editedScenario)
    /\ editedScenario.threatEventFrequency = Num(2)
    /\ editedScenario.susceptibility = Hundred
    /\ panel.by = "calculateClientSide"
    /\ mcRun = "detail"
    /\ Len(results) >= 2
    /\ Len(lecData) > 0

\* C11: a simulation requested with an iteration count below 1 is rejected: it
\* never completes as a run from which percentiles and curve points are read.
C11_RejectsBelowOne == simulations < 1 => mcRun # "detail"

\* C14: two runs over the same scenario and run count give the same sample array:
\* the curve of generateLEC's run is the curve of the run whose results are shown
C14_Reproducible ==
    mcRun = "detail" => lecData = LEC_points(results)

\* C26: with a run count of at least 1 the render's generateLEC comes to an end, and
\* the curve it returns has at least one point
C26_CurveGenerated ==
    simulations >= 1 =>
        /\ mcRun # "hung"
        /\ mcRun = "detail" => Len(lecData) > 0

\* C7: in every Monte Carlo iteration the secondary loss added to the loss
\* magnitude is either 0 or the full sampled secondary subtotal.
C7_GateAllOrNothing ==
    mcRun # "none" =>
        \A i \in 1..Len(mcTrace) :
            \/ mcTrace[i].secondary = Zero
            \/ mcTrace[i].secondary = mcTrace[i].secondarySubtotal

InUnitInterval(x) == Leq(Zero, x) /\ Leq(x, Num(1))

\* C8: for a scenario with susceptibility and SLEF in [0,100], the sampled
\* susceptibility and SLEF of every iteration are probabilities in [0,1].
C8_SampledProbabilities ==
    (/\ mcRun # "none"
     /\ Leq(Zero, editedScenario.susceptibility) /\ Leq(editedScenario.susceptibility, Hundred)
     /\ Leq(Zero, editedScenario.slef) /\ Leq(editedScenario.slef, Hundred)) =>
        \A i \in 1..Len(mcTrace) :
            /\ InUnitInterval(mcTrace[i].susceptibility)
            /\ InUnitInterval(mcTrace[i].slef)

\* element at index floor(N x q) of the samples in ascending order
NearestRank(samples, q) ==
    LET n == Len(samples)
        i == Floor(Times(Num(n), q)) + 1
        below(k) == Cardinality({j \in 1..n : Less(samples[j], samples[k])})
        upto(k) == Cardinality({j \in 1..n : Leq(samples[j], samples[k])})
    IN  IF i \notin 1..n THEN Undefined
        ELSE samples[CHOOSE k \in 1..n : below(k) < i /\ i <= upto(k)]

\* C10: every reported percentile q is the element at index floor(N x q) of the
\* samples sorted ascending: P10/P50/P90 of the sensitivity band and P50, P90,
\* P99 of the scenario detail view.
C10_NearestRank ==
    /\ mcRun = "sensitivity" =>
        /\ percentiles.p10 = NearestRank(Pushed(mcTrace), Frac(10, 100))
        /\ percentiles.p50 = NearestRank(Pushed(mcTrace), Frac(50, 100))
        /\ percentiles.p90 = NearestRank(Pushed(mcTrace), Frac(90, 100))
    /\ mcRun = "detail" =>
        /\ percentiles.p50 = NearestRank(Pushed(mcTrace), Frac(50, 100))
        /\ percentiles.p90 = NearestRank(Pushed(mcTrace), Frac(90, 100))
        /\ percentiles.p99 = NearestRank(Pushed(mcTrace), Frac(99, 100))

(***************************************************************************)
(* App.tsx and Dashboard.tsx: the scenario list and the portfolio metrics  *)
(***************************************************************************)
MaxScenarios == 3
MaxCreated == 1

\* App: the two scenarios the list starts with
DefaultScenarios ==
    <<Scenario(1, Frac(5, 2), Num(35), Num(400000), Num(250000), Num(100000),
               Num(500000), Num(150000), Num(200000), Num(65)),
      Scenario(2, Frac(3, 2), Num(30), Num(1200000), Num(800000), Num(300000),
               Num(250000), Num(100000), Num(200000), Num(35))>>

\* factor values entered in the creation wizard or in the detail view's edit mode
EnteredFactors ==
    {Scenario(0, Num(1), Num(100), Num(700000), Zero, Zero, Zero, Zero, Zero, Zero),
     Scenario(0, Num(1), Num(100), Num(100000), Num(200000), Zero, Zero, Zero, Zero, Zero),
     Scenario(0, Num(2), Num(50), Zero, Zero, Num(50000), Num(500000), Zero, Num(200000),
              Num(50)),
     Scenario(0, Zero, Num(50), Num(100000), Zero, Zero, Num(300000), Zero, Zero, Num(50)),
     Scenario(0, Num(2), Zero, Zero, Num(100000), Zero, Zero, Num(300000), Zero, Hundred)}

WithId(s, id) == [s EXCEPT !.id = id]

Ids(scn) == {scn[i].id : i \in 1..Len(scn)}

\* Math.max(...ales)
RECURSIVE MaxOf(_)
MaxOf(q) ==
    IF Len(q) = 1 THEN q[1]
    ELSE LET m == MaxOf(Tail(q)) IN IF Less(Head(q), m) THEN m ELSE Head(q)

\* ales.indexOf(maxALE), counted from 1
IndexOf(q, x) == CHOOSE i \in 1..Len(q) : q[i] = x /\ \A j \in 1..(i - 1) : q[j] # x

\* Object.values(calc): one entry per id, in the order the ids were first inserted
CalcValues(scn, calc) ==
    LET firsts == SelectSeq([i \in 1..Len(scn) |-> [i |-> i, id |-> scn[i].id]],
                            LAMBDA e : \A j \in 1..(e.i - 1) : scn[j].id # e.id)
    IN  [k \in 1..Len(firsts) |-> calc[firsts[k].id]]

\* calc[scenario.id] = {ale, lef, slee} for each scenario; a later scenario with
\* the same id overwrites an earlier one
Dashboard_calc(scn) ==
    [id \in Ids(scn) |->
        LET last == CHOOSE i \in 1..Len(scn) :
                        scn[i].id = id /\ \A j \in (i + 1)..Len(scn) : scn[j].id # id
            result == calculateClientSide(scn[last])
        IN  [ale |-> result.ale, lef |-> result.lef, slee |-> result.slee]]

\* faulty variant: total_ale accumulated from the loss magnitudes
Dashboard_totalALE_wrongField(scn, calc) ==
    LET values == CalcValues(scn, calc)
    IN  SumSeq([k \in 1..Len(values) |-> values[k].slee])

\* Object.values(calc).reduce((sum, c) => sum + c.ale, 0)
Dashboard_totalALE(scn, calc) ==
    LET values == CalcValues(scn, calc)
    IN  SumSeq([k \in 1..Len(values) |-> values[k].ale])

Dashboard_totalLEF(scn, calc) ==
    LET values == CalcValues(scn, calc)
    IN  SumSeq([k \in 1..Len(values) |-> values[k].lef])

\* totalLEF > 0 ? Object.values(calc).reduce((sum, c) => sum + (c.lef * c.slee), 0) / totalLEF : 0
Dashboard_weightedAvgLM(scn, calc, totalLEF) ==
    IF Less(Zero, totalLEF)
    THEN LET values == CalcValues(scn, calc)
         IN  Over(SumSeq([k \in 1..Len(values) |-> Times(values[k].lef, values[k].slee)]),
                  totalLEF)
    ELSE Zero

Dashboard_topScenarioShare(maxALE, totalALE) ==
    IF Less(Zero, totalALE) THEN Times(Over(maxALE, totalALE), Hundred) ELSE Zero

\* Dashboard.calculateClientSideMetrics over the effect's scenarios (non-empty):
\* its constants in order, then setCalculations(calc) and setPortfolioMetrics.
\* source tags the metrics as computed in the browser.
calculateClientSideMetrics(scn) ==
    \E calc \in {Dashboard_calc(scn)} :
    \E totalALE \in {Dashboard_totalALE(scn, calc)} :
    \E totalLEF \in {Dashboard_totalLEF(scn, calc)} :
    \E weightedAvgLM \in {Dashboard_weightedAvgLM(scn, calc, totalLEF)} :
    \E ales \in {[i \in 1..Len(scn) |-> OrZero(calc[scn[i].id].ale)]} :
    \E maxALE \in {MaxOf(ales)} :
    \E maxIndex \in {IndexOf(ales, maxALE)} :
    \E topScenarioShare \in {Dashboard_topScenarioShare(maxALE, totalALE)} :
    \E topScenarioId \in {scn[maxIndex].id} :
        /\ calculations' = calc
        /\ portfolioMetrics' =
            [source |-> "client",
             total_ale |-> totalALE,
             expected_events_per_year |-> totalLEF,
             weighted_average_lm |-> weightedAvgLM,
             top_scenario_share |-> topScenarioShare,
             top_scenario_id |-> topScenarioId,
             scenario_ales |-> [id \in Ids(scn) |-> OrZero(calc[id].ale)],
             scenario_lefs |-> [id \in Ids(scn) |-> OrZero(calc[id].lef)],
             scenario_lms |-> [id \in Ids(scn) |-> OrZero(calc[id].slee)]]

(***************************************************************************)
(* AggregatedMetrics.tsx: what is shown and what is copied                 *)
(***************************************************************************)
NotAvailable == "N/A"

AggregatedMetrics_zeroLEF(pm) == pm.expected_events_per_year = Zero

\* faulty variant: the warning raised from 70% on
AggregatedMetrics_highConcentration_inclusive(pm) ==
    Leq(Num(70), pm.top_scenario_share)

AggregatedMetrics_highConcentration(pm) == Less(Num(70), pm.top_scenario_share)

\* the four metric cards and the concentration warning
AggregatedMetrics_metrics(pm) ==
    LET zeroLEF == AggregatedMetrics_zeroLEF(pm)
        highConcentration == AggregatedMetrics_highConcentration(pm)
    IN  [total_ale |-> <<"$M", ToFixed(Over(pm.total_ale, Num(1000000)), 2)>>,
         expected_events |->
            IF zeroLEF THEN <<NotAvailable>>
            ELSE <<"", ToFixed(pm.expected_events_per_year, 2)>>,
         average_lm |->
            IF zeroLEF THEN <<NotAvailable>>
            ELSE <<"$K", ToFixed(Over(pm.weighted_average_lm, Num(1000)), 0)>>,
         average_lm_formula |-> IF zeroLEF THEN "undefined" ELSE "sum(LEF_i x LM_i) / sum LEF_i",
         top_share |-> <<"%", ToFixed(pm.top_scenario_share, 0)>>,
         top_scenario |-> pm.top_scenario_id,
         warning |-> highConcentration]

\* the text copyFormulas writes to the clipboard (its four value lines)
AggregatedMetrics_formulas(pm) ==
    [written |-> TRUE,
     total_ale |-> <<"$M", ToFixed(Over(pm.total_ale, Num(1000000)), 2)>>,
     expected_events |-> <<"", ToFixed(pm.expected_events_per_year, 2)>>,
     average_lm |-> <<"$K", ToFixed(Over(pm.weighted_average_lm, Num(1000)), 0)>>,
     top_share |-> <<"%", ToFixed(pm.top_scenario_share, 1)>>]

(***************************************************************************)
(* App and Dashboard handlers.  The Dashboard is mounted while view is     *)
(* 'dashboard'; its effect on [scenarios] asks the risk service for the    *)
(* portfolio metrics when the list is non-empty and falls back to the      *)
(* client-side calculation when the request fails.  While loading, only    *)
(* the spinner is rendered.  clipboard holds the text written by the last  *)
(* step, if that step wrote any.                                           *)
(***************************************************************************)
\* the effect on [scenarios]: calculateMetrics() up to its await, or setLoading(false)
EffectStarts(scn) ==
    /\ loading' = (Len(scn) > 0)
    /\ requests' = IF Len(scn) > 0 THEN requests \cup {[scenarios |-> scn]} ELSE requests

\* faulty variant: the list and the detail view stay on screen while loading
Dashboard_interactive_always == loading \in BOOLEAN

\* while loading the Dashboard renders the spinner alone
Dashboard_interactive == ~loading

\* header button 'New Scenario': the Dashboard unmounts and its state is gone
ShowCreate ==
    /\ view = "dashboard"
    /\ view' = "create"
    /\ calculations' = <<>>
    /\ portfolioMetrics' = NoMetrics
    /\ selectedScenario' = NoScenario
    /\ loading' = TRUE
    /\ clipboard' = NoText
    /\ requests' = {}
    /\ stale' \in (IF requests = {} THEN {stale}
                  ELSE {[ids |-> Ids(request.scenarios)] : request \in requests})
    /\ UNCHANGED <<scenarios, created>>
    /\ UNCHANGED notAppVars

\* App.handleCreateScenario, then the Dashboard mounts
createScenario(scenario) ==
    /\ view = "create"
    /\ created < MaxCreated
    /\ Len(scenarios) < MaxScenarios
    /\ created' = created + 1
    /\ scenarios' = Append(scenarios, WithId(scenario, Len(DefaultScenarios) + created + 1))
    /\ view' = "dashboard"
    /\ calculations' = <<>>
    /\ portfolioMetrics' = NoMetrics
    /\ selectedScenario' = NoScenario
    /\ EffectStarts(scenarios')
    /\ clipboard' = NoText
    /\ UNCHANGED stale

\* the wizard taken as a whole: it hands over one of EnteredFactors
handleCreateScenario(scenario) ==
    /\ createScenario(scenario)
    /\ UNCHANGED notAppVars

\* ScenarioCreation onCancel (or the header button 'Dashboard'), then the Dashboard mounts
ShowDashboard ==
    /\ view = "create"
    /\ view' = "dashboard"
    /\ calculations' = <<>>
    /\ portfolioMetrics' = NoMetrics
    /\ selectedScenario' = NoScenario
    /\ EffectStarts(scenarios)
    /\ clipboard' = NoText
    /\ UNCHANGED <<scenarios, created, stale>>
    /\ UNCHANGED notAppVars

\* faulty variant: no catch block, the rejection leaves calculateMetrics before
\* setLoading(false)
PortfolioRequestFails_uncaught(request) ==
    /\ view = "dashboard"
    /\ request \in requests
    /\ requests' = requests \ {request}
    /\ clipboard' = NoText
    /\ UNCHANGED <<view, scenarios, created, selectedScenario, stale, loading, calculations,
                   portfolioMetrics>>
    /\ UNCHANGED notAppVars

\* the await of a mounted Dashboard rejects: the catch block works on the list the
\* effect closed over, then setLoading(false).  (A resolved await stores the service's
\* response for the same closed-over list; the service is not part of these sources.)
PortfolioRequestFails(request) ==
    /\ view = "dashboard"
    /\ request \in requests
    /\ calculateClientSideMetrics(request.scenarios)
    /\ loading' = FALSE
    /\ requests' = requests \ {request}
    /\ clipboard' = NoText
    /\ UNCHANGED <<view, scenarios, created, selectedScenario, stale>>
    /\ UNCHANGED notAppVars

\* what fairApi.portfolioMetrics can resolve to for a request: a PortfolioResult
\* with an entry per scenario id sent (the numbers stand for the service's means),
\* or a body without the three per-scenario maps
ServiceResponses(scn) ==
    {[source |-> "service",
      total_ale |-> Num(Len(scn)),
      expected_events_per_year |-> Num(Len(scn)),
      weighted_average_lm |-> Num(1),
      top_scenario_share |-> Over(Hundred, Num(Len(scn))),
      top_scenario_id |-> scn[1].id,
      scenario_ales |-> [id \in Ids(scn) |-> Num(1)],
      scenario_lefs |-> [id \in Ids(scn) |-> Num(1)],
      scenario_lms |-> [id \in Ids(scn) |-> Num(1)]],
     [source |-> "service", detail |-> "no maps"]}

\* the await of a mounted Dashboard resolves: setPortfolioMetrics(portfolioData) and
\* setCalculations(calc) from the three maps; reading an entry of a missing map
\* throws inside the try and the catch block takes over; then setLoading(false)
PortfolioRequestResolves(request, portfolioData) ==
    /\ view = "dashboard"
    /\ request \in requests
    /\ IF "scenario_ales" \in DOMAIN portfolioData
       THEN /\ portfolioMetrics' = portfolioData
            /\ calculations' = [id \in Ids(request.scenarios) |->
                                    [ale |-> portfolioData.scenario_ales[id],
                                     lef |-> portfolioData.scenario_lefs[id],
                                     slee |-> portfolioData.scenario_lms[id]]]
       ELSE calculateClientSideMetrics(request.scenarios)
    /\ loading' = FALSE
    /\ requests' = requests \ {request}
    /\ clipboard' = NoText
    /\ UNCHANGED <<view, scenarios, created, selectedScenario, stale>>
    /\ UNCHANGED notAppVars

\* the await of an unmounted Dashboard settles: its setState calls reach no component
StaleRequestSettles ==
    /\ stale # NoRequest
    /\ stale' = NoRequest
    /\ UNCHANGED <<view, scenarios, created, loading, calculations, portfolioMetrics,
                   selectedScenario, clipboard, requests>>
    /\ UNCHANGED notAppVars

\* App.handleUpdateScenario(updatedScenario) and the Dashboard's effect on the new list
updateScenario(updatedScenario) ==
    /\ view = "dashboard"
    /\ Dashboard_interactive
    /\ updatedScenario.id \in Ids(scenarios)
    /\ scenarios' = [i \in 1..Len(scenarios) |->
                        IF scenarios[i].id = updatedScenario.id THEN updatedScenario
                        ELSE scenarios[i]]
    /\ EffectStarts(scenarios')
    /\ clipboard' = NoText
    /\ UNCHANGED <<view, created, calculations, portfolioMetrics, selectedScenario, stale>>

\* ScenarioDetail.handleSave -> App.handleUpdateScenario(updatedScenario), the detail
\* view taken as a whole: it hands over one of EnteredFactors
handleUpdateScenario(updatedScenario) ==
    /\ updateScenario(updatedScenario)
    /\ UNCHANGED notAppVars

\* ScenarioDetail.handleDelete -> App.handleDeleteScenario(scenarioId)
handleDeleteScenario(scenarioId) ==
    /\ view = "dashboard"
    /\ Dashboard_interactive
    /\ scenarioId \in Ids(scenarios)
    /\ scenarios' = SelectSeq(scenarios, LAMBDA s : s.id # scenarioId)
    /\ EffectStarts(scenarios')
    /\ clipboard' = NoText
    /\ UNCHANGED <<view, created, calculations, portfolioMetrics, selectedScenario, stale>>
    /\ UNCHANGED notAppVars

\* AggregatedMetrics.copyFormulas (the metrics are rendered)
copyFormulas ==
    /\ view = "dashboard"
    /\ ~loading
    /\ Len(scenarios) > 0
    /\ portfolioMetrics # NoMetrics
    /\ clipboard' = AggregatedMetrics_formulas(portfolioMetrics)
    /\ UNCHANGED <<view, scenarios, created, loading, calculations, portfolioMetrics,
                   selectedScenario, requests, stale>>
    /\ UNCHANGED notAppVars

InitPortfolio ==
    /\ view = "dashboard"
    /\ scenarios = DefaultScenarios
    /\ created = 0
    /\ loading = TRUE
    /\ calculations = <<>>
    /\ portfolioMetrics = NoMetrics
    /\ selectedScenario = NoScenario
    /\ clipboard = NoText
    /\ requests = {[scenarios |-> DefaultScenarios]}
    /\ stale = NoRequest
    /\ DetailIdle
    /\ SamplerIdle
    /\ WizardIdle
    /\ HookIdle
    /\ WidgetIdle

NextPortfolio ==
    \/ ShowCreate
    \/ \E s \in EnteredFactors : handleCreateScenario(s)
    \/ ShowDashboard
    \/ \E request \in requests : PortfolioRequestFails(request)
    \/ StaleRequestSettles
    \/ \E id \in Ids(scenarios) : \E s \in EnteredFactors :
            handleUpdateScenario(WithId(s, id))
    \/ \E id \in Ids(scenarios) : handleDeleteScenario(id)
    \/ copyFormulas

SpecPortfolio == InitPortfolio /\ [][NextPortfolio]_vars

(***************************************************************************)
(* The detail modal inside the Dashboard.  Dashboard keeps the scenario    *)
(* object that was clicked in selectedScenario and renders ScenarioDetail  *)
(* with it while it is not loading; ScenarioDetail copies its prop into    *)
(* editedScenario when it mounts.                                          *)
(***************************************************************************)
DetailOpen == view = "dashboard" /\ Dashboard_interactive /\ selectedScenario # NoScenario

EditFrame ==
    /\ UNCHANGED <<simulations, panel, mcRun, mcTrace, results, lecData, percentiles>>
    /\ UNCHANGED <<samplerVars, wizardVars, hookVars, analysis, rangeInput, scenarioList>>

\* ScenarioCard onClick: setSelectedScenario(scenario); ScenarioDetail mounts
setSelectedScenario(scenario) ==
    /\ view = "dashboard"
    /\ Dashboard_interactive
    /\ selectedScenario = NoScenario
    /\ selectedScenario' = scenario
    /\ editedScenario' = scenario
    /\ editMode' = FALSE
    /\ UNCHANGED <<view, scenarios, created, loading, calculations, portfolioMetrics,
                   clipboard, requests, stale>>
    /\ EditFrame

\* the Edit / Editing button: setEditMode(!editMode)
setEditMode ==
    /\ DetailOpen
    /\ editMode' = ~editMode
    /\ UNCHANGED editedScenario
    /\ UNCHANGED appVars
    /\ EditFrame

\* a factor input, enabled in edit mode
setEditedScenario(f, v) ==
    /\ DetailOpen
    /\ editMode
    /\ editedScenario' = [editedScenario EXCEPT ![f] = v]
    /\ UNCHANGED editMode
    /\ UNCHANGED appVars
    /\ EditFrame

\* handleCancel: setEditedScenario(scenario); setEditMode(false)
handleCancel ==
    /\ DetailOpen
    /\ editMode
    /\ editedScenario' = selectedScenario
    /\ editMode' = FALSE
    /\ UNCHANGED appVars
    /\ EditFrame

\* handleSave: onUpdate(editedScenario); setEditMode(false).  The Dashboard's effect
\* on the new list sets loading, the spinner replaces the modal, and the
\* ScenarioDetail that is mounted when the calculation has settled starts from
\* useState(scenario) with the selectedScenario the Dashboard still holds
handleSave ==
    /\ DetailOpen
    /\ editMode
    /\ updateScenario(editedScenario)
    /\ editedScenario' = selectedScenario
    /\ editMode' = FALSE
    /\ EditFrame

\* the modal's close button: setSelectedScenario(null)
onClose ==
    /\ DetailOpen
    /\ selectedScenario' = NoScenario
    /\ editedScenario' = NoScenario
    /\ editMode' = FALSE
    /\ UNCHANGED <<view, scenarios, created, loading, calculations, portfolioMetrics,
                   clipboard, requests, stale>>
    /\ EditFrame

\* the factor inputs used in the model
EditedFields == {"threatEventFrequency", "slef"}

NextEdit ==
    \/ \E i \in 1..Len(scenarios) : setSelectedScenario(scenarios[i])
    \/ setEditMode
    \/ \E f \in EditedFields : \E v \in FieldValues(f) : setEditedScenario(f, v)
    \/ handleCancel
    \/ handleSave
    \/ onClose
    \/ \E request \in requests : PortfolioRequestFails(request)

SpecEdit == InitPortfolio /\ [][NextEdit]_vars

\* C28: while the detail view is open and not in edit mode, the factor values in
\* editedScenario are those of the scenario with its id in the scenario list
C28_ShowsStoredValues ==
    (DetailOpen /\ ~editMode) =>
        \E i \in 1..Len(scenarios) :
            /\ scenarios[i].id = editedScenario.id
            /\ \A f \in FAIRFactor : editedScenario[f] = scenarios[i][f]

\* the Dashboard with a risk service that may answer
NextBackend ==
    \/ NextPortfolio
    \/ \E request \in requests : \E portfolioData \in ServiceResponses(request.scenarios) :
            PortfolioRequestResolves(request, portfolioData)

\* the promise of a pending request settles
PortfolioRequestSettles ==
    \E request \in requests :
        \/ PortfolioRequestFails(request)
        \/ \E portfolioData \in ServiceResponses(request.scenarios) :
                PortfolioRequestResolves(request, portfolioData)

\* a mounted Dashboard awaits a request: PortfolioRequestSettles is enabled
RequestPending == view = "dashboard" /\ requests # {}

\* fetch settles every request: weak fairness of PortfolioRequestSettles, with the
\* enabling condition of the action written out as RequestPending
RequestsSettle ==
    \/ []<>(~RequestPending)
    \/ []<><<PortfolioRequestSettles>>_vars

SpecBackend == InitPortfolio /\ [][NextBackend]_vars /\ RequestsSettle

\* C23: a Dashboard that shows the spinner for a non-empty list gets, unless it is
\* unmounted first, to loading = false with portfolio metrics and a calculation for
\* every scenario of the list; a rejected request leaves the client-side values of
\* the list it was started for
C23_EventuallyCalculated ==
    /\ (view = "dashboard" /\ Len(scenarios) > 0 /\ loading) ~>
            \/ view # "dashboard"
            \/ /\ ~loading
               /\ portfolioMetrics # NoMetrics
               /\ DOMAIN portfolioMetrics.scenario_ales = Ids(scenarios)
               /\ DOMAIN calculations = Ids(scenarios)
    /\ [][\A request \in requests :
            PortfolioRequestFails(request) =>
                /\ ~loading'
                /\ portfolioMetrics'.source = "client"
                /\ calculations' = Dashboard_calc(request.scenarios)]_vars

\* the request for a list with a created scenario was rejected and the client-side
\* values are on screen
C23_Witness ==
    /\ view = "dashboard"
    /\ Len(scenarios) = 3
    /\ ~loading
    /\ requests = {}
    /\ portfolioMetrics # NoMetrics
    /\ portfolioMetrics.source = "client"
    /\ DOMAIN calculations = Ids(scenarios)

RECURSIVE SumOver(_, _)
SumOver(f, S) ==
    IF S = {} THEN Zero
    ELSE LET x == CHOOSE y \in S : TRUE IN Plus(f[x], SumOver(f, S \ {x}))

ClientMetrics == portfolioMetrics.source = "client"

\* C2: in the metrics of the client-side fallback, total_ale is the sum of the
\* reported scenario_ales and expected_events_per_year the sum of the reported
\* scenario_lefs, for any number of scenarios.
C2_MeansAdd ==
    ClientMetrics =>
        LET pm == portfolioMetrics
        IN  /\ pm.total_ale = SumOver(pm.scenario_ales, DOMAIN pm.scenario_ales)
            /\ pm.expected_events_per_year = SumOver(pm.scenario_lefs, DOMAIN pm.scenario_lefs)

C2_Witness ==
    /\ ClientMetrics
    /\ Cardinality(DOMAIN portfolioMetrics.scenario_ales) = 3
    /\ \A id \in DOMAIN portfolioMetrics.scenario_ales :
            Less(Zero, portfolioMetrics.scenario_ales[id])
    /\ ~loading

\* C3: the weighted average LM is sum(LEF_i x LM_i) / sum(LEF_i) when sum(LEF_i) > 0;
\* when sum(LEF_i) = 0 it is reported as N/A, on the metric card and in the copied
\* formulas, never as a number.
C3_WeightedAverageLM ==
    ClientMetrics =>
        LET pm == portfolioMetrics
            ids == DOMAIN pm.scenario_lefs
            sumLEF == SumOver(pm.scenario_lefs, ids)
            weighted == [id \in ids |-> Times(pm.scenario_lefs[id], pm.scenario_lms[id])]
        IN  /\ Less(Zero, sumLEF) =>
                pm.weighted_average_lm = Over(SumOver(weighted, ids), sumLEF)
            /\ sumLEF = Zero =>
                /\ AggregatedMetrics_metrics(pm).average_lm = <<NotAvailable>>
                /\ clipboard.written => clipboard.average_lm = <<NotAvailable>>

MaxIterations == 2
MaxEvents == 3

\* the low-frequency threshold, 0.1
threshold == Frac(1, 10)

\* TEF samples on both sides of the threshold and on it
TefSamples == {Frac(k, 100) : k \in {0, 1, 9, 10, 11, 250}}

\* values of random() in [0, 1)
Uniforms == {Zero, Frac(1, 20), Frac(1, 2)}

\* p_any = 1 - exp(-expected_events), with exp(-x) taken to second order,
\* 1 - x + x^2/2; below the threshold the error is under 0.0002
p_any(expected_events) ==
    Minus(expected_events, Over(Times(expected_events, expected_events), Num(2)))

\* a Poisson(lambda) draw can return any count; counts are capped at MaxEvents
poisson(lambda) == 0..MaxEvents

sampleEvents_naivePoisson(expected_events) ==
    {[branch |-> "poisson", events |-> k] : k \in poisson(expected_events)}

\* the outcomes of one iteration's event draw
sampleEvents(expected_events) ==
    IF Less(expected_events, threshold)
    THEN {[branch |-> "bernoulli",
           events |-> IF Less(u, p_any(expected_events)) THEN 1 ELSE 0] : u \in Uniforms}
    ELSE {[branch |-> "poisson", events |-> k] : k \in poisson(expected_events)}

\* one Monte Carlo iteration: expected_events = tef_sample, then the draw
DrawEvents(tef_sample) ==
    /\ Len(events) < MaxIterations
    /\ \E draw \in sampleEvents(tef_sample) :
        /\ expectedEvents' = Append(expectedEvents, tef_sample)
        /\ branch' = Append(branch, draw.branch)
        /\ events' = Append(events, draw.events)
    /\ UNCHANGED notSamplerVars

\* a run is atomic; the next request starts from nothing
NewSimulation ==
    /\ Len(events) > 0
    /\ expectedEvents' = <<>>
    /\ branch' = <<>>
    /\ events' = <<>>
    /\ UNCHANGED notSamplerVars

InitSampler ==
    /\ AppIdle
    /\ DetailIdle
    /\ SamplerIdle
    /\ WizardIdle
    /\ HookIdle
    /\ WidgetIdle

NextSampler ==
    \/ \E tef_sample \in TefSamples : DrawEvents(tef_sample)
    \/ NewSimulation

SpecSampler == InitSampler /\ [][NextSampler]_vars

steps == <<"metadata", "asset", "threat", "vector", "method", "outcome",
           "assumptions", "statement", "lef", "lm", "review">>

stepIndex(step) == CHOOSE i \in 1..Len(steps) : steps[i] = step

Triple(p10, p50, p90) == [p10 |-> p10, p50 |-> p50, p90 |-> p90]

\* useState({...}): the form's initial values; a text field is kept as the length
\* of its trimmed content, a range as its three percentiles
InitialFormData ==
    [timeHorizon |-> 12, currency |-> 3,
     asset |-> 0, threatActor |-> 0, attackVector |-> 0, attackMethod |-> 0,
     adverseOutcome |-> 0,
     tef |-> Triple(0, 0, 0),
     susceptibility |-> Triple(0, 50, 100),
     productivityRange |-> Triple(0, 0, 0),
     slefRange |-> Triple(0, 50, 100),
     productivity |-> 0, response |-> 0, replacement |-> 0, fines |-> 0,
     competitiveAdvantage |-> 0, reputation |-> 0, slef |-> 50]

\* the text field each definition step edits
TextFields ==
    [asset |-> "asset", threatActor |-> "threat", attackVector |-> "vector",
     attackMethod |-> "method", adverseOutcome |-> "outcome"]

\* what the user types into a box of a range input
TextEntries == {3}
FrequencyEntries == {0, 1}
ProbabilityEntries == {-10, 150}
LossEntries == {0, 100}

Wizard_calculatePrimaryLoss(fd) == fd.productivity + fd.response + fd.replacement

Wizard_calculateSecondaryLoss(fd) == fd.fines + fd.competitiveAdvantage + fd.reputation

\* primaryLoss + secondaryLoss * (slef / 100) > 0, compared without the division
Wizard_LMPositive(fd) ==
    100 * Wizard_calculatePrimaryLoss(fd) + Wizard_calculateSecondaryLoss(fd) * fd.slef > 0

Ordered(r) == r.p10 <= r.p50 /\ r.p50 <= r.p90

isStepComplete(step, fd) ==
    CASE step = "metadata" -> fd.timeHorizon > 0 /\ fd.currency > 0
      [] step = "asset" -> fd.asset >= 3
      [] step = "threat" -> fd.threatActor >= 3
      [] step = "vector" -> fd.attackVector >= 3
      [] step = "method" -> fd.attackMethod >= 3
      [] step = "outcome" -> fd.adverseOutcome >= 3
      [] step = "assumptions" -> TRUE
      [] step = "statement" -> TRUE
      [] step = "lef" ->
            /\ fd.tef.p50 > 0
            /\ fd.susceptibility.p50 > 0
            /\ fd.tef.p10 >= 0
            /\ fd.tef.p90 > 0
            /\ fd.susceptibility.p10 >= 0
            /\ fd.susceptibility.p90 > 0
            /\ fd.tef.p10 <= fd.tef.p50
            /\ fd.tef.p50 <= fd.tef.p90
            /\ fd.susceptibility.p10 <= fd.susceptibility.p50
            /\ fd.susceptibility.p50 <= fd.susceptibility.p90
      [] step = "lm" -> Wizard_LMPositive(fd)
      [] step = "review" -> TRUE
      [] OTHER -> FALSE

\* RangeEstimationInput.handleP10Change / handleP50Change / handleP90Change:
\* onChange gets the parsed number in the edited place, the props in the others
Changed(r, box, value) ==
    CASE box = "p10" -> Triple(value, r.p50, r.p90)
      [] box = "p50" -> Triple(r.p10, value, r.p90)
      [] box = "p90" -> Triple(r.p10, r.p50, value)

Boxes == {"p10", "p50", "p90"}

WizardFrame == UNCHANGED appVars /\ UNCHANGED notWizardVars

\* a definition step's text area
TypeText(field, length) ==
    /\ currentStep = TextFields[field]
    /\ formData' = [formData EXCEPT ![field] = length]
    /\ UNCHANGED currentStep
    /\ WizardFrame

\* LEFStep, "TEF Estimate" (with tefDecompose the same three fields receive the
\* product of the two entered ranges)
ChangeTEF(box, value) ==
    /\ currentStep = "lef"
    /\ formData' = [formData EXCEPT !.tef = Changed(formData.tef, box, value)]
    /\ UNCHANGED currentStep
    /\ WizardFrame

\* LEFStep, "Susceptibility Estimate"
ChangeSusceptibility(box, value) ==
    /\ currentStep = "lef"
    /\ formData' = [formData EXCEPT
                      !.susceptibility = Changed(formData.susceptibility, box, value)]
    /\ UNCHANGED currentStep
    /\ WizardFrame

\* LMStep, "Productivity Loss": the range and the synced median
ChangeProductivity(box, value) ==
    /\ currentStep = "lm"
    /\ \E r \in {Changed(formData.productivityRange, box, value)} :
          formData' = [formData EXCEPT !.productivityRange = r, !.productivity = r.p50]
    /\ UNCHANGED currentStep
    /\ WizardFrame

\* LMStep, "Secondary Loss Event Frequency": the range and the synced median
ChangeSLEF(box, value) ==
    /\ currentStep = "lm"
    /\ \E r \in {Changed(formData.slefRange, box, value)} :
          formData' = [formData EXCEPT !.slefRange = r, !.slef = r.p50]
    /\ UNCHANGED currentStep
    /\ WizardFrame

\* faulty variant: a Next button that is never disabled
handleNext_alwaysEnabled ==
    /\ currentStep # NoStep
    /\ currentStep # "review"
    /\ currentStep' = steps[stepIndex(currentStep) + 1]
    /\ UNCHANGED formData
    /\ WizardFrame

\* the Next button is disabled while the current step is incomplete
handleNext ==
    /\ currentStep # NoStep
    /\ currentStep # "review"
    /\ isStepComplete(currentStep, formData)
    /\ currentStep' = steps[stepIndex(currentStep) + 1]
    /\ UNCHANGED formData
    /\ WizardFrame

\* the Back button is shown on every step but the first
handleBack ==
    /\ currentStep # NoStep
    /\ currentStep # "metadata"
    /\ currentStep' = steps[stepIndex(currentStep) - 1]
    /\ UNCHANGED formData
    /\ WizardFrame

\* what handleSubmit hands to onCreateScenario
Submitted(fd) ==
    Scenario(0, Num(fd.tef.p50), Num(fd.susceptibility.p50), Num(fd.productivity),
             Num(fd.response), Num(fd.replacement), Num(fd.fines),
             Num(fd.competitiveAdvantage), Num(fd.reputation), Num(fd.slef))

\* the Create Scenario button replaces Next on the last step
handleSubmit ==
    /\ currentStep = "review"
    /\ createScenario(Submitted(formData))
    /\ currentStep' = NoStep
    /\ formData' = NoForm
    /\ UNCHANGED notWizardVars

\* the Cancel button: App shows the Dashboard again
onCancel ==
    /\ currentStep # NoStep
    /\ view = "create"
    /\ view' = "dashboard"
    /\ calculations' = <<>>
    /\ portfolioMetrics' = NoMetrics
    /\ selectedScenario' = NoScenario
    /\ EffectStarts(scenarios)
    /\ clipboard' = NoText
    /\ currentStep' = NoStep
    /\ formData' = NoForm
    /\ UNCHANGED <<scenarios, created, stale>>
    /\ UNCHANGED notWizardVars

\* the wizard as App mounts it from "New scenario"
InitWizard ==
    /\ view = "create"
    /\ scenarios = DefaultScenarios
    /\ created = 0
    /\ loading = TRUE
    /\ calculations = <<>>
    /\ portfolioMetrics = NoMetrics
    /\ selectedScenario = NoScenario
    /\ clipboard = NoText
    /\ requests = {}
    /\ stale = NoRequest
    /\ DetailIdle
    /\ SamplerIdle
    /\ HookIdle
    /\ WidgetIdle
    /\ currentStep = "metadata"
    /\ formData = InitialFormData

NextWizard ==
    \/ \E field \in DOMAIN TextFields, length \in TextEntries : TypeText(field, length)
    \/ \E box \in Boxes, value \in FrequencyEntries : ChangeTEF(box, value)
    \/ \E box \in Boxes, value \in ProbabilityEntries : ChangeSusceptibility(box, value)
    \/ \E box \in Boxes, value \in LossEntries : ChangeProductivity(box, value)
    \/ \E box \in Boxes, value \in ProbabilityEntries : ChangeSLEF(box, value)
    \/ handleNext
    \/ handleBack
    \/ handleSubmit
    \/ onCancel
    \/ \E request \in requests : PortfolioRequestFails(request)

SpecWizard == InitWizard /\ [][NextWizard]_vars

\* every range the wizard holds
Ranges(fd) == {fd.tef, fd.susceptibility, fd.slefRange, fd.productivityRange}

\* C12: while the TEF, susceptibility, SLEF or a loss form's range has p10 > p50 or
\* p50 > p90, the wizard is not on the step that offers Create Scenario
C12_OrderedAtCreation ==
    currentStep = "review" => \A r \in Ranges(formData) : Ordered(r)

\* C27: on the review step TEF P50 and susceptibility P50 are positive, the TEF and
\* susceptibility ranges are ordered and the loss magnitude of the medians is
\* positive, so the review step's warning (tefP50 = 0 or LM = 0) is not shown; and
\* every scenario the wizard has created has a positive TEF and loss magnitude
C27_ReviewIsComplete ==
    /\ currentStep = "review" =>
            /\ formData.tef.p50 > 0
            /\ formData.susceptibility.p50 > 0
            /\ Ordered(formData.tef)
            /\ Ordered(formData.susceptibility)
            /\ Wizard_LMPositive(formData)
            /\ ~(formData.tef.p50 = 0
                    \/ 100 * Wizard_calculatePrimaryLoss(formData)
                            + Wizard_calculateSecondaryLoss(formData) * formData.slef = 0)
    /\ \A i \in (Len(DefaultScenarios) + 1)..Len(scenarios) :
            /\ Less(Zero, scenarios[i].threatEventFrequency)
            /\ Less(Zero, calculateClientSide(scenarios[i]).slee)

\* the wizard has created a scenario from entered TEF, susceptibility and loss values
C27_Witness ==
    /\ currentStep = NoStep
    /\ Len(scenarios) = Len(DefaultScenarios) + 1
    /\ scenarios[Len(scenarios)].threatEventFrequency = Num(1)
    /\ scenarios[Len(scenarios)].susceptibility = Num(150)
    /\ scenarios[Len(scenarios)].productivity = Num(100)

\* scenarioToCalculationRequest(scenario), the percentiles it derives from a
\* probability's point value: x * 0.7, x, Math.min(100, x * 1.3)
Request_probability(x) ==
    [p10 |-> Times(x, Frac(7, 10)), p50 |-> x,
     p90 |-> IF Less(Hundred, Times(x, Frac(13, 10))) THEN Hundred
             ELSE Times(x, Frac(13, 10))]

\* the probabilities a scenario carries into a request: slef is left out when falsy
Probabilities(scenario) ==
    {scenario.susceptibility} \cup (IF scenario.slef = Zero THEN {} ELSE {scenario.slef})

\* C13: a request is built and a calculation is made only from probability
\* estimates whose percentiles lie in [0, 100], and the p90 a request carries is the
\* value it was derived as, not one cut back to 100
C13_ProbabilitiesRejected ==
    (view = "dashboard" /\ (loading \/ calculations # <<>>)) =>
        \A i \in 1..Len(scenarios) : \A x \in Probabilities(scenarios[i]) :
            /\ Leq(Zero, Request_probability(x).p10)
            /\ Leq(Request_probability(x).p90, Hundred)
            /\ Request_probability(x).p90 = Times(x, Frac(13, 10))

(***************************************************************************)
(* RangeInput: a range shown as a whisker and edited as three numbers      *)
(***************************************************************************)
\* the props a parent mounts the input with, and what Number(e.target.value)
\* gives for what is typed into a box ('' gives 0)
RangeProps == {Triple(1, 2, 3), Triple(0, 0, 0)}
BoxEntries == {-1, 0, 2, 5}

\* faulty variant: p90 taken over as typed
RangeInput_validated_p90AsTyped(tempValues) ==
    [p10 |-> IF tempValues.p10 < tempValues.p50 THEN tempValues.p10 ELSE tempValues.p50,
     p50 |-> tempValues.p50,
     p90 |-> tempValues.p90]

\* handleBlur: {p10: Math.min(p10, p50), p50, p90: Math.max(p50, p90)} of tempValues
RangeInput_validated(tempValues) ==
    [p10 |-> IF tempValues.p10 < tempValues.p50 THEN tempValues.p10 ELSE tempValues.p50,
     p50 |-> tempValues.p50,
     p90 |-> IF tempValues.p50 < tempValues.p90 THEN tempValues.p90 ELSE tempValues.p50]

RangeFrame == UNCHANGED notWidgetVars /\ UNCHANGED <<editMode, scenarioList>>

\* the whisker button: setTempValues({p10, p50, p90}); setIsEditing(true)
RangeInput_onClick ==
    /\ rangeInput # NoRange
    /\ ~rangeInput.isEditing
    /\ rangeInput' = [rangeInput EXCEPT !.tempValues = rangeInput.props,
                                        !.isEditing = TRUE]
    /\ RangeFrame

\* onChange of one of the three boxes
RangeInput_setTempValues(box, value) ==
    /\ rangeInput # NoRange
    /\ rangeInput.isEditing
    /\ rangeInput' = [rangeInput EXCEPT
                         !.tempValues = Changed(rangeInput.tempValues, box, value)]
    /\ RangeFrame

\* a box loses focus: onChange(validated), which the parent stores and hands back
\* as props; setIsEditing(false)
RangeInput_handleBlur ==
    /\ rangeInput # NoRange
    /\ rangeInput.isEditing
    /\ \E validated \in {RangeInput_validated(rangeInput.tempValues)} :
          rangeInput' = [rangeInput EXCEPT !.committed = validated, !.props = validated,
                                          !.isEditing = FALSE]
    /\ RangeFrame

InitRange ==
    /\ AppIdle
    /\ DetailIdle
    /\ SamplerIdle
    /\ WizardIdle
    /\ HookIdle
    /\ \E props \in RangeProps :
          rangeInput = [props |-> props, isEditing |-> FALSE, tempValues |-> props,
                        committed |-> Null]
    /\ editMode = FALSE
    /\ scenarioList = NoList

NextRange ==
    \/ RangeInput_onClick
    \/ \E box \in Boxes, value \in BoxEntries : RangeInput_setTempValues(box, value)
    \/ RangeInput_handleBlur

SpecRange == InitRange /\ [][NextRange]_vars

\* C24: what a blur commits through onChange is ordered p10 <= p50 <= p90, has the
\* p50 of the boxes, the p10 of the boxes lowered to p50 if it was above it and the
\* p90 of the boxes raised to p50 if it was below it; the adjustment applied to what
\* was committed gives what was committed
C24_BlurCommitsOrdered ==
    [][(rangeInput.isEditing /\ ~rangeInput'.isEditing) =>
            LET typed == rangeInput.tempValues
                committed == rangeInput'.committed
            IN  /\ committed.p10 <= committed.p50
                /\ committed.p50 <= committed.p90
                /\ committed.p50 = typed.p50
                /\ committed.p10 = (IF typed.p10 > typed.p50 THEN typed.p50 ELSE typed.p10)
                /\ committed.p90 = (IF typed.p90 < typed.p50 THEN typed.p50 ELSE typed.p90)
                /\ RangeInput_validated(committed) = committed
                /\ rangeInput'.tempValues = typed]_vars

\* a blur has raised a p90 typed below p50 and lowered a p10 typed above it
C24_Witness ==
    /\ rangeInput # NoRange
    /\ ~rangeInput.isEditing
    /\ rangeInput.committed # Null
    /\ rangeInput.committed.p90 > rangeInput.tempValues.p90
    /\ rangeInput.committed.p10 < rangeInput.tempValues.p10

(***************************************************************************)
(* useFairCalculation: the calculation hook                                *)
(***************************************************************************)
MaxCalls == 3

\* what fairApi.calculate settles with: the response body, or what it throws (an
\* Error carrying error.detail or 'Calculation failed', fetch's own Error, or a
\* value that is no Error)
Responses == {[ale |-> 875000], [ale |-> 0]}
Thrown ==
    {[isError |-> TRUE, message |-> "Invalid percentiles"],
     [isError |-> TRUE, message |-> "Calculation failed"],
     [isError |-> TRUE, message |-> "Failed to fetch"],
     [isError |-> FALSE, message |-> "aborted"]}

\* faulty variant: the catch block keeps the result already in the state
Hook_failed_keepsResult(error) ==
    [state EXCEPT !.loading = FALSE, !.error = [message |-> "Calculation failed"]]

\* the catch block's setState
Hook_failed(error) ==
    [loading |-> FALSE,
     error |-> [message |-> IF error.isError THEN error.message ELSE "Calculation failed"],
     result |-> Null]

\* calculate(scenario): everything up to the await
Calculate_starts ==
    /\ Len(calls) < MaxCalls
    /\ state' = [loading |-> TRUE, error |-> Null, result |-> Null]
    /\ calls' = Append(calls, [status |-> "pending"])
    /\ UNCHANGED notHookVars

\* the await resolves: setState and return result
Calculate_resolves(i, result) ==
    /\ calls[i].status = "pending"
    /\ state' = [loading |-> FALSE, error |-> Null, result |-> result]
    /\ calls' = [calls EXCEPT ![i] = [status |-> "returned", settled |-> result]]
    /\ UNCHANGED notHookVars

\* the await rejects: the catch block, which throws the error again
Calculate_rejects(i, error) ==
    /\ calls[i].status = "pending"
    /\ state' = Hook_failed(error)
    /\ calls' = [calls EXCEPT ![i] = [status |-> "thrown", settled |-> error]]
    /\ UNCHANGED notHookVars

reset ==
    /\ state' = [loading |-> FALSE, error |-> Null, result |-> Null]
    /\ UNCHANGED calls
    /\ UNCHANGED notHookVars

InitHook ==
    /\ AppIdle
    /\ DetailIdle
    /\ SamplerIdle
    /\ WizardIdle
    /\ HookIdle
    /\ WidgetIdle

NextHook ==
    \/ Calculate_starts
    \/ \E i \in 1..Len(calls), result \in Responses : Calculate_resolves(i, result)
    \/ \E i \in 1..Len(calls), error \in Thrown : Calculate_rejects(i, error)
    \/ reset

SpecHook == InitHook /\ [][NextHook]_vars

\* C15: error and result are never both set, loading comes with neither, and a
\* calculate call whose request fails leaves result = null and an error message in
\* the state and throws what it caught
C15_FailureYieldsNoResult ==
    /\ [](/\ ~(state.error # Null /\ state.result # Null)
          /\ state.loading => (state.error = Null /\ state.result = Null))
    /\ [][\A i \in 1..Len(calls) :
            (calls[i].status = "pending" /\ calls'[i].status # "pending"
                /\ calls'[i].settled \in Thrown) =>
                    /\ state'.result = Null
                    /\ state'.error # Null
                    /\ calls'[i].status = "thrown"]_vars

\* a call has failed while an overlapping call was still pending
C15_Witness ==
    /\ \E i \in 1..Len(calls) : calls[i].status = "thrown"
    /\ \E i \in 1..Len(calls) : calls[i].status = "pending"
    /\ state.error # Null

(***************************************************************************)
(* useFairCalculation.ts: scenarioToCalculationRequest                     *)
(***************************************************************************)
\* scenario.f, undefined when the scenario has no such property
Field(scenario, f) == IF f \in DOMAIN scenario THEN scenario[f] ELSE Undefined

\* a || b for a number or undefined on the left
OrElse(a, b) == IF a = Undefined \/ a = Zero THEN b ELSE a

\* Math.min(100, x)
Request_min100(x) == IF Less(Hundred, x) THEN Hundred ELSE x

\* the percentiles of the useRanges branch: the explicit range fields, each falling
\* back to a multiple of the point estimate
Request_ranged(p10, p50, p90, x, low, high, capped) ==
    [p10 |-> OrElse(p10, Times(x, low)),
     p50 |-> OrElse(p50, x),
     p90 |-> OrElse(p90, IF capped THEN Request_min100(Times(x, high))
                         ELSE Times(x, high))]

\* a loss form of the useRanges branch: undefined when the point estimate is falsy
Request_rangedForm(scenario, f, p10, p50, p90, high) ==
    IF scenario[f] = Zero THEN Undefined
    ELSE Request_ranged(Field(scenario, p10), Field(scenario, p50), Field(scenario, p90),
                        scenario[f], Frac(1, 2), high, FALSE)

\* a loss form of the fallback branch
Request_pointForm(scenario, f, low, high) ==
    IF scenario[f] = Zero THEN Undefined
    ELSE [p10 |-> Times(scenario[f], low), p50 |-> scenario[f],
          p90 |-> Times(scenario[f], high)]

\* the percentiles of the request (its model, currency, time horizon and number of
\* simulations are fixed values)
scenarioToCalculationRequest(scenario, useRanges) ==
    IF useRanges
    THEN [tef |-> [percentiles |->
                      Request_ranged(Field(scenario, "tefP10"), Field(scenario, "tefP50"),
                                     Field(scenario, "tefP90"),
                                     scenario.threatEventFrequency, Frac(1, 2), Num(2),
                                     FALSE)],
          susceptibility |-> [percentiles |->
                      Request_ranged(Field(scenario, "susceptibilityP10"),
                                     Field(scenario, "susceptibilityP50"),
                                     Field(scenario, "susceptibilityP90"),
                                     scenario.susceptibility, Frac(1, 2), Frac(3, 2),
                                     TRUE)],
          loss_forms |->
              [productivity |-> Request_rangedForm(scenario, "productivity",
                                    "productivityP10", "productivityP50",
                                    "productivityP90", Num(2)),
               response |-> Request_rangedForm(scenario, "response", "responseP10",
                                    "responseP50", "responseP90", Num(2)),
               replacement |-> Request_rangedForm(scenario, "replacement",
                                    "replacementP10", "replacementP50",
                                    "replacementP90", Num(2)),
               fines |-> Request_rangedForm(scenario, "fines", "finesP10", "finesP50",
                                    "finesP90", Num(3)),
               competitive_advantage |->
                   Request_rangedForm(scenario, "competitiveAdvantage",
                                    "competitiveAdvantageP10", "competitiveAdvantageP50",
                                    "competitiveAdvantageP90", Num(3)),
               reputation |-> Request_rangedForm(scenario, "reputation", "reputationP10",
                                    "reputationP50", "reputationP90", Num(3))],
          slef |-> IF scenario.slef = Zero THEN Undefined
                   ELSE [percentiles |->
                            Request_ranged(Field(scenario, "slefP10"),
                                           Field(scenario, "slefP50"),
                                           Field(scenario, "slefP90"),
                                           scenario.slef, Frac(1, 2), Frac(3, 2), TRUE)]]
    ELSE [tef |-> [percentiles |->
                      [p10 |-> Times(scenario.threatEventFrequency, Frac(1, 2)),
                       p50 |-> scenario.threatEventFrequency,
                       p90 |-> Times(scenario.threatEventFrequency, Num(2))]],
          susceptibility |-> [percentiles |-> Request_probability(scenario.susceptibility)],
          loss_forms |->
              [productivity |-> Request_pointForm(scenario, "productivity",
                                                  Frac(3, 5), Frac(5, 2)),
               response |-> Request_pointForm(scenario, "response", Frac(3, 5), Frac(5, 2)),
               replacement |-> Request_pointForm(scenario, "replacement",
                                                 Frac(3, 5), Frac(5, 2)),
               fines |-> Request_pointForm(scenario, "fines", Frac(2, 5), Num(4)),
               competitive_advantage |-> Request_pointForm(scenario, "competitiveAdvantage",
                                                           Frac(2, 5), Num(4)),
               reputation |-> Request_pointForm(scenario, "reputation",
                                                Frac(2, 5), Num(4))],
          slef |-> IF scenario.slef = Zero THEN Undefined
                   ELSE [percentiles |-> Request_probability(scenario.slef)]]

\* the scenarios calculate is called with: point estimates, and with them none or
\* one of the explicit ranges a scenario may carry
RequestPoints ==
    {DefaultScenarios[1],
     Scenario(3, Num(10), Num(50), Num(1000), Zero, Zero, Num(500), Zero, Zero, Zero),
     Scenario(4, Zero, Hundred, Zero, Num(20), Zero, Zero, Zero, Num(7), Hundred)}
RequestRanges ==
    {[tefP10 |-> Num(1), tefP50 |-> Num(2), tefP90 |-> Num(4)],
     [susceptibilityP10 |-> Zero, susceptibilityP50 |-> Num(10),
      susceptibilityP90 |-> Num(20)],
     [finesP10 |-> Num(100), finesP50 |-> Num(200), finesP90 |-> Num(300)]}
RequestScenarios ==
    RequestPoints \cup {point @@ range : point \in RequestPoints, range \in RequestRanges}

\* calculate(scenario, useRanges): the request is built and sent, everything up to
\* the await
Calculate_requests(scenario, useRanges) ==
    /\ Len(calls) < MaxCalls
    /\ state' = [loading |-> TRUE, error |-> Null, result |-> Null]
    /\ calls' = Append(calls, [status |-> "pending", scenario |-> scenario,
                               request |-> scenarioToCalculationRequest(scenario,
                                                                        useRanges)])
    /\ UNCHANGED notHookVars

NextRequest ==
    \/ \E scenario \in RequestScenarios, useRanges \in BOOLEAN :
          Calculate_requests(scenario, useRanges)
    \/ \E i \in 1..Len(calls), result \in Responses : Calculate_resolves(i, result)
    \/ \E i \in 1..Len(calls), error \in Thrown : Calculate_rejects(i, error)
    \/ reset

SpecRequest == InitHook /\ [][NextRequest]_vars

\* the three fields of an explicit range are ordered when all of them are present
Request_rangeOrdered(p10, p50, p90) ==
    (p10 # Undefined /\ p50 # Undefined /\ p90 # Undefined) =>
        Leq(p10, p50) /\ Leq(p50, p90)

\* non-negative point estimates, probabilities within [0, 100], explicit ranges ordered
Request_admissible(scenario) ==
    /\ \A f \in {"threatEventFrequency", "susceptibility", "productivity", "response",
                 "replacement", "fines", "competitiveAdvantage", "reputation", "slef"} :
          Leq(Zero, scenario[f])
    /\ Leq(scenario.susceptibility, Hundred)
    /\ Leq(scenario.slef, Hundred)
    /\ Request_rangeOrdered(Field(scenario, "tefP10"), Field(scenario, "tefP50"),
                            Field(scenario, "tefP90"))
    /\ Request_rangeOrdered(Field(scenario, "susceptibilityP10"),
                            Field(scenario, "susceptibilityP50"),
                            Field(scenario, "susceptibilityP90"))
    /\ Request_rangeOrdered(Field(scenario, "finesP10"), Field(scenario, "finesP50"),
                            Field(scenario, "finesP90"))

\* every percentile triple a request carries
Request_triples(request) ==
    {request.tef.percentiles, request.susceptibility.percentiles}
        \cup ({request.loss_forms[f] : f \in DOMAIN request.loss_forms} \ {Undefined})
        \cup (IF request.slef = Undefined THEN {} ELSE {request.slef.percentiles})

\* C25: for a scenario with non-negative point estimates, susceptibility and SLEF
\* within [0, 100] and ordered explicit ranges, every percentile triple of the
\* request built from it, with or without useRanges, has p10 <= p50 <= p90, and the
\* susceptibility and SLEF triples have p90 <= 100
C25_RequestTriplesOrdered ==
    \A i \in 1..Len(calls) :
        ("request" \in DOMAIN calls[i] /\ Request_admissible(calls[i].scenario)) =>
            /\ \A t \in Request_triples(calls[i].request) :
                  Leq(t.p10, t.p50) /\ Leq(t.p50, t.p90)
            /\ Leq(calls[i].request.susceptibility.percentiles.p90, Hundred)
            /\ calls[i].request.slef # Undefined =>
                  Leq(calls[i].request.slef.percentiles.p90, Hundred)

(***************************************************************************)
(* ScenarioList: the industry benchmark charted beside each scenario       *)
(***************************************************************************)
DEFAULT_IRIS_MEDIAN == 603000
MaxFetches == 1

\* a number held where the code expects an object
JsNumber(n) == [number |-> n]

\* the scenarios prop, each scenario by its industry
Industries == {"Financial Services", "Healthcare"}
ListProps ==
    {<<>>} \cup {<<[industry |-> a]>> : a \in Industries}
           \cup {<<[industry |-> a], [industry |-> b]>> : a, b \in Industries}

\* what one benchmark fetch settles with: the body response.json() gives, or a
\* rejection (no connection, a body that is not JSON)
Rejected == [rejected |-> TRUE]
BenchmarkBodies ==
    {[industry |-> [median |-> 450000, p95 |-> 9000000]],
     [overall_baseline |-> [median |-> 700000]],
     [industry |-> [median |-> 0]],
     [data |-> [overall_baseline |-> [median |-> 500000]]],
     [detail |-> "Not Found"]}

\* result.industry || result.overall_baseline || null
Bench_lm(result) ==
    IF "industry" \in DOMAIN result THEN result.industry
    ELSE IF "overall_baseline" \in DOMAIN result THEN result.overall_baseline
    ELSE Null

\* the median one benchmark promise resolves with; result.data.overall_baseline of
\* a body without data throws, which the catch turns into the default
Bench_median(result) ==
    IF result = Rejected THEN DEFAULT_IRIS_MEDIAN
    ELSE IF Bench_lm(result) # Null /\ "median" \in DOMAIN Bench_lm(result)
    THEN Bench_lm(result).median
    ELSE IF "data" \notin DOMAIN result THEN DEFAULT_IRIS_MEDIAN
    ELSE IF "overall_baseline" \in DOMAIN result.data
            /\ result.data.overall_baseline.median # 0
    THEN result.data.overall_baseline.median
    ELSE DEFAULT_IRIS_MEDIAN

\* [...new Set(scenarios.map(s => s.industry))]
Bench_uniqueIndustries(shown) == {shown[i].industry : i \in 1..Len(shown)}

\* results.reduce(...): acc[industry] = median
Bench_benchmarkMap(bodies) ==
    [industry \in DOMAIN bodies |-> JsNumber(Bench_median(bodies[industry]))]

\* getIndustryBenchmark(scenario): b must be truthy and have a numeric median
getIndustryBenchmark(benchmarks, scenario) ==
    IF /\ scenario.industry \in DOMAIN benchmarks
       /\ benchmarks[scenario.industry] # JsNumber(0)
       /\ "median" \in DOMAIN benchmarks[scenario.industry]
    THEN benchmarks[scenario.industry]
    ELSE [median |-> DEFAULT_IRIS_MEDIAN]

\* chartData: the benchmark of each scenario
chartData(shown, benchmarks) ==
    [i \in 1..Len(shown) |->
        [industry |-> shown[i].industry,
         benchmark |-> getIndustryBenchmark(benchmarks, shown[i]).median]]

\* the effect on [scenarios]: fetchBenchmarks up to its first await
Bench_effect(list, shown) ==
    IF Len(shown) > 0
    THEN [list EXCEPT !.loadingBenchmarks = TRUE, !.runs = Append(@, shown)]
    ELSE list

\* the component as mounted: useState({}), useState(false), then the effect
Bench_mounted(shown) ==
    Bench_effect([scenarios |-> shown, benchmarks |-> <<>>,
                  loadingBenchmarks |-> FALSE, runs |-> <<>>, fetched |-> <<>>,
                  chartData |-> chartData(shown, <<>>)], shown)

BenchFrame == UNCHANGED notWidgetVars /\ UNCHANGED <<rangeInput, editMode>>

\* the Dashboard renders the list with other scenarios: the chart is drawn from
\* them and the effect runs again
ScenarioList_scenariosChange(newScenarios) ==
    /\ scenarioList # NoList
    /\ newScenarios # scenarioList.scenarios
    /\ Len(scenarioList.runs) < MaxFetches
    /\ scenarioList' =
          Bench_effect([scenarioList EXCEPT
                            !.scenarios = newScenarios,
                            !.chartData = chartData(newScenarios,
                                                    scenarioList.benchmarks)],
                       newScenarios)
    /\ BenchFrame

\* Promise.all settles for run k with one body per industry: setBenchmarks, then
\* setLoadingBenchmarks(false) in finally, and the chart is drawn again
fetchBenchmarks_settles(k, bodies) ==
    /\ scenarioList # NoList
    /\ k \in 1..Len(scenarioList.runs)
    /\ DOMAIN bodies = Bench_uniqueIndustries(scenarioList.runs[k])
    /\ scenarioList' =
          [scenarioList EXCEPT
              !.benchmarks = Bench_benchmarkMap(bodies),
              !.loadingBenchmarks = FALSE,
              !.runs = SubSeq(@, 1, k - 1) \o SubSeq(@, k + 1, Len(@)),
              !.fetched = bodies,
              !.chartData = chartData(scenarioList.scenarios,
                                      Bench_benchmarkMap(bodies))]
    /\ BenchFrame

InitBench ==
    /\ AppIdle
    /\ DetailIdle
    /\ SamplerIdle
    /\ WizardIdle
    /\ HookIdle
    /\ rangeInput = NoRange
    /\ editMode = FALSE
    /\ \E shown \in ListProps : scenarioList = Bench_mounted(shown)

NextBench ==
    \/ \E newScenarios \in ListProps : ScenarioList_scenariosChange(newScenarios)
    \/ \E k \in 1..MaxFetches, used \in SUBSET Industries :
          \E bodies \in [used -> BenchmarkBodies \cup {Rejected}] :
              fetchBenchmarks_settles(k, bodies)

SpecBench == InitBench /\ [][NextBench]_vars

\* C30: once the benchmark fetches have settled, a scenario whose industry's fetch
\* returned a numeric industry (or overall-baseline) median is charted with that
\* median as its benchmark, so the default 603000 appears only where no median was
\* obtained
C30_ChartsFetchedMedian ==
    (scenarioList # NoList /\ scenarioList.runs = <<>>) =>
        \A i \in 1..Len(scenarioList.scenarios) :
            LET industry == scenarioList.scenarios[i].industry
            IN  (/\ industry \in DOMAIN scenarioList.fetched
                 /\ scenarioList.fetched[industry] # Rejected
                 /\ Bench_lm(scenarioList.fetched[industry]) # Null) =>
                    scenarioList.chartData[i].benchmark =
                        Bench_lm(scenarioList.fetched[industry]).median

(***************************************************************************)
(* SensitivityAnalysis: derivative, elasticity and the sensitivity curve   *)
(***************************************************************************)
NaN == [nan |-> TRUE]

\* the text of an input that holds nothing
EmptyInput == [empty |-> TRUE]

\* the useState defaults
InitialAnalysis ==
    [selectedFactor |-> "threatEventFrequency", mode |-> "local", rangeMin |-> Num(50),
     rangeMax |-> Num(150), jointMode |-> FALSE, coupledFactor |-> "susceptibility",
     targetALE |-> EmptyInput, showGlobalTab |-> FALSE]

\* ALE of a test scenario; a NaN factor makes it NaN
Sens_ale(s) ==
    IF \E f \in FAIRFactor : s[f] = NaN THEN NaN
    ELSE Sens_baseline(s).ale

\* calculateElasticity: a 1% step on the selected factor; 0 / 0 is NaN
Sens_calculateElasticity(scenario, selectedFactor) ==
    LET baselineALE == Sens_baseline(scenario).ale
        baseValue == scenario[selectedFactor]
        delta == Times(baseValue, Frac(1, 100))
        testScenario == [scenario EXCEPT ![selectedFactor] = Plus(baseValue, delta)]
        newALE == Sens_baseline(testScenario).ale
    IN  [elasticity |->
            IF baseValue = Zero \/ (baselineALE = Zero /\ newALE = Zero) THEN NaN
            ELSE IF baselineALE = Zero THEN [infinite |-> TRUE]
            ELSE Over(Over(Minus(newALE, baselineALE), baselineALE), Over(delta, baseValue)),
         slope |-> IF delta = Zero THEN NaN ELSE Over(Minus(newALE, baselineALE), delta)]

\* faulty variant: the TEF derivative without the division of susceptibility by 100
Sens_getPartialDerivative_percent(scenario, selectedFactor) ==
    Times(scenario.susceptibility, Sens_baseline(scenario).lm)

\* getPartialDerivative().value
Sens_getPartialDerivative(scenario, selectedFactor) ==
    LET lef == Sens_baseline(scenario).lef
        lm == Sens_baseline(scenario).lm
        secondaryTotal == Sens_calculateSecondaryLoss(scenario)
    IN  CASE selectedFactor = "threatEventFrequency" ->
                Times(Over(scenario.susceptibility, Hundred), lm)
          [] selectedFactor = "susceptibility" ->
                Times(Times(scenario.threatEventFrequency, lm), Frac(1, 100))
          [] selectedFactor = "slef" ->
                Times(Times(lef, secondaryTotal), Frac(1, 100))
          [] selectedFactor \in {"productivity", "response", "replacement"} -> lef
          [] selectedFactor \in {"fines", "competitiveAdvantage", "reputation"} ->
                Times(lef, Over(scenario.slef, Hundred))

\* Math.max(0.1, Math.min(99.9, invLogit(logit(baseline) * (pct / 100)))) for the
\* baselines whose logit is exact: log(1) = 0 at 50, -Infinity at 0, Infinity at
\* 100, NaN outside [0, 100]; Infinity * 0 is NaN, and NaN passes min and max
Sens_logitVariation(baseline, pct) ==
    CASE Less(baseline, Zero) \/ Less(Hundred, baseline) -> NaN
      [] baseline = Num(50) -> Num(50)
      [] baseline \in {Zero, Hundred} /\ pct = Zero -> NaN
      [] baseline \in {Zero, Hundred} /\ pct # Zero ->
            IF (baseline = Hundred) = Less(Zero, pct) THEN Frac(999, 10) ELSE Frac(1, 10)

\* applyVariation(factor, pct) inside generateSensitivityData
Sens_applyVariation(scenario, testScenario, mode, factor, pct) ==
    IF factor \in {"susceptibility", "slef"} /\ mode = "local"
    THEN Sens_logitVariation(scenario[factor], pct)
    ELSE IF testScenario[factor] = NaN THEN NaN
         ELSE Times(testScenario[factor], Over(pct, Hundred))

\* the test scenario of one curve point: the selected factor, then in joint mode the
\* coupled factor where the second switch has a case for it
Sens_testScenario(scenario, a, percentage) ==
    LET primary == [scenario EXCEPT ![a.selectedFactor] =
                        Sens_applyVariation(scenario, scenario, a.mode, a.selectedFactor,
                                            percentage)]
    IN  IF a.jointMode /\ a.coupledFactor \in {"threatEventFrequency", "susceptibility",
                                               "slef"}
        THEN [primary EXCEPT ![a.coupledFactor] =
                  Sens_applyVariation(scenario, primary, a.mode, a.coupledFactor,
                                      percentage)]
        ELSE primary

Sens_steps == 25

\* generateSensitivityData: the points at rangeMin + i * increment, i = 0 .. steps
Sens_generateSensitivityData(scenario, a) ==
    [k \in 1..(Sens_steps + 1) |->
        LET percentage == Plus(a.rangeMin,
                               Times(Num(k - 1),
                                     Over(Minus(a.rangeMax, a.rangeMin), Num(Sens_steps))))
            testScenario == Sens_testScenario(scenario, a, percentage)
            ale == Sens_ale(testScenario)
        IN  [percentage |-> percentage, testScenario |-> testScenario, ale |-> ale,
             \* data.push({percentage: percentage.toFixed(0), ale: Math.round(ale), ...})
             point |-> [percentage |-> Num(ToFixed(percentage, 0)),
                        ale |-> IF ale = NaN THEN NaN ELSE Num(Round(ale))]]]

\* calculateGlobalVariance: the contribution of each factor, (ALE at 120% - ALE at
\* 80%) squared over the total and times 100; 0 / 0 is NaN.  The closing sort orders
\* the rows and leaves the contributions as they are.
Sens_calculateGlobalVariance(scenario) ==
    LET variance == [f \in FAIRFactor |->
            LET aleHigh == Sens_baseline([scenario EXCEPT ![f] = Times(@, Frac(6, 5))]).ale
                aleLow == Sens_baseline([scenario EXCEPT ![f] = Times(@, Frac(4, 5))]).ale
            IN  Times(Minus(aleHigh, aleLow), Minus(aleHigh, aleLow))]
        totalVariance == SumOver(variance, FAIRFactor)
    IN  [f \in FAIRFactor |->
            IF totalVariance = Zero THEN NaN
            ELSE Times(Over(variance[f], totalVariance), Hundred)]

\* the forEach of solveForTarget from point k on: a point is taken over when its
\* |ale - target| is less than minDiff; a comparison with NaN is false
RECURSIVE Sens_closest(_, _, _, _, _)
Sens_closest(data, target, k, closest, minDiff) ==
    IF k > Len(data) THEN closest
    ELSE LET d == IF data[k].point.ale = NaN THEN NaN
                  ELSE Minus(data[k].point.ale, target)
             diff == IF d = NaN THEN NaN ELSE IF Less(d, Zero) THEN Minus(Zero, d) ELSE d
         IN  IF diff # NaN /\ minDiff # NaN /\ Less(diff, minDiff)
             THEN Sens_closest(data, target, k + 1, k, diff)
             ELSE Sens_closest(data, target, k + 1, closest, minDiff)

\* solveForTarget, data being what its call of generateSensitivityData returns
Sens_solveForTarget(scenario, a, data) ==
    LET d1 == IF data[1].point.ale = NaN THEN NaN ELSE Minus(data[1].point.ale, a.targetALE)
        closest == Sens_closest(data, a.targetALE, 1, 1,
                                IF d1 = NaN THEN NaN
                                ELSE IF Less(d1, Zero) THEN Minus(Zero, d1) ELSE d1)
    IN  [percentage |-> data[closest].point.percentage,
         ale |-> data[closest].point.ale,
         \* the baseline times the printed percentage
         actualValue |-> Times(scenario[a.selectedFactor],
                               Over(data[closest].point.percentage, Hundred))]

\* what a render of the component computes from its state
Sens_render(scenario, a, data) ==
    [by |-> "SensitivityAnalysis",
     lef |-> Sens_baseline(scenario).lef, lm |-> Sens_baseline(scenario).lm,
     ale |-> Sens_baseline(scenario).ale,
     derivative |-> Sens_getPartialDerivative(scenario, a.selectedFactor),
     elasticityData |-> Sens_calculateElasticity(scenario, a.selectedFactor),
     data |-> data,
     solution |-> IF a.targetALE = EmptyInput THEN Null
                  ELSE Sens_solveForTarget(scenario, a, data),
     globalVariance |-> IF a.showGlobalTab THEN Sens_calculateGlobalVariance(scenario)
                        ELSE Null]

\* a state setter of the component and the render that follows it
Analysed(a) ==
    /\ analysis' = a
    /\ \E data \in {Sens_generateSensitivityData(editedScenario, a)} :
          panel' = Sens_render(editedScenario, a, data)
    /\ UNCHANGED <<editedScenario, simulations, mcRun, mcTrace, results, lecData,
                   percentiles>>
    /\ UNCHANGED <<appVars, samplerVars, wizardVars, hookVars, widgetVars>>

setSelectedFactor(factor) ==
    /\ analysis # NoAnalysis
    /\ Analysed([analysis EXCEPT !.selectedFactor = factor])

setMode(mode) ==
    /\ analysis # NoAnalysis
    /\ Analysed([analysis EXCEPT !.mode = mode])

setJointMode(checked) ==
    /\ analysis # NoAnalysis
    /\ Analysed([analysis EXCEPT !.jointMode = checked])

\* the select is shown in joint mode and offers every factor but the selected one
setCoupledFactor(factor) ==
    /\ analysis # NoAnalysis
    /\ analysis.jointMode
    /\ factor # analysis.selectedFactor
    /\ Analysed([analysis EXCEPT !.coupledFactor = factor])

\* the options picked in the model, one of each kind of factor among them
CoupledEntries == {"threatEventFrequency", "susceptibility", "slef", "productivity", "fines"}

\* what is typed into the two range inputs
RangeEntries == {Num(0)}

setRangeMin(value) ==
    /\ analysis # NoAnalysis
    /\ Analysed([analysis EXCEPT !.rangeMin = value])

setRangeMax(value) ==
    /\ analysis # NoAnalysis
    /\ Analysed([analysis EXCEPT !.rangeMax = value])

\* scenarios the detail view hands over: its inputs store Number(e.target.value)
AnalysedScenarios ==
    {Scenario(1, Num(2), Num(50), Num(4), Num(2), Num(1), Num(5), Num(3), Num(2), Num(50)),
     Scenario(1, Num(2), Num(0), Num(4), Num(0), Num(1), Num(5), Num(0), Num(2), Num(100)),
     Scenario(1, Num(2), Num(50), Num(-8), Num(2), Num(1), Num(0), Num(0), Num(0), Num(50))}

InitSensitivity ==
    /\ AppIdle
    /\ SamplerIdle
    /\ WizardIdle
    /\ HookIdle
    /\ WidgetIdle
    /\ editedScenario \in AnalysedScenarios
    /\ simulations = LecPoints
    /\ mcRun = "none"
    /\ mcTrace = <<>>
    /\ results = <<>>
    /\ lecData = <<>>
    /\ percentiles = NoPercentiles
    /\ analysis = InitialAnalysis
    /\ \E data \in {Sens_generateSensitivityData(editedScenario, InitialAnalysis)} :
          panel = Sens_render(editedScenario, InitialAnalysis, data)

NextSensitivity ==
    \/ \E factor \in FAIRFactor : setSelectedFactor(factor)
    \/ \E mode \in {"local", "global"} : setMode(mode)
    \/ \E checked \in BOOLEAN : setJointMode(checked)
    \/ \E factor \in CoupledEntries : setCoupledFactor(factor)
    \/ \E value \in RangeEntries : setRangeMin(value)
    \/ \E value \in RangeEntries : setRangeMax(value)

SpecSensitivity == InitSensitivity /\ [][NextSensitivity]_vars

\* the target input and the variance panel
setTargetALE(value) ==
    /\ analysis # NoAnalysis
    /\ Analysed([analysis EXCEPT !.targetALE = value])

setShowGlobalTab ==
    /\ analysis # NoAnalysis
    /\ Analysed([analysis EXCEPT !.showGlobalTab = ~@])

\* what is typed into the target input
TargetEntries == {EmptyInput, Num(0), Num(9)}

NextSolver ==
    \/ \E factor \in FAIRFactor : setSelectedFactor(factor)
    \/ \E mode \in {"local", "global"} : setMode(mode)
    \/ \E value \in TargetEntries : setTargetALE(value)
    \/ setShowGlobalTab

SpecSolver == InitSensitivity /\ [][NextSolver]_vars

\* C17: for a selected factor whose baseline value is not zero, the derivative
\* shown is the closed form for that factor (TEF: susceptibility/100 x LM;
\* susceptibility: TEF x LM x 0.01; SLEF: LEF x secondary x 0.01; a primary form:
\* LEF; a secondary form: LEF x SLEF/100) and is the forward-difference slope of
\* calculateElasticity
C17_DerivativeIsSlope ==
    (analysis # NoAnalysis /\ editedScenario[analysis.selectedFactor] # Zero) =>
        LET s == editedScenario
            f == analysis.selectedFactor
        IN  /\ panel.derivative = panel.elasticityData.slope
            /\ f = "threatEventFrequency" =>
                    panel.derivative = Times(Over(s.susceptibility, Hundred), panel.lm)
            /\ f = "susceptibility" =>
                    panel.derivative =
                        Times(Times(s.threatEventFrequency, panel.lm), Frac(1, 100))
            /\ f = "slef" =>
                    panel.derivative =
                        Times(Times(panel.lef, Plus(Plus(s.fines, s.competitiveAdvantage),
                                                    s.reputation)), Frac(1, 100))
            /\ f \in {"productivity", "response", "replacement"} =>
                    panel.derivative = panel.lef
            /\ f \in {"fines", "competitiveAdvantage", "reputation"} =>
                    panel.derivative = Times(panel.lef, Over(s.slef, Hundred))

\* a secondary loss form with a non-zero baseline is selected and the exposure is not zero
C17_Witness ==
    /\ analysis # NoAnalysis
    /\ analysis.selectedFactor = "fines"
    /\ editedScenario.fines # Zero
    /\ panel.derivative # Zero
    /\ panel.derivative = panel.elasticityData.slope

\* C18: the derivative with respect to TEF is not negative, and along the TEF
\* curve a larger TEF never comes with a smaller ALE
C18_NonDecreasingInTEF ==
    (analysis # NoAnalysis /\ analysis.selectedFactor = "threatEventFrequency"
        /\ ~analysis.jointMode) =>
        /\ Leq(Zero, panel.derivative)
        /\ \A i, j \in 1..Len(panel.data) :
              Less(panel.data[i].testScenario.threatEventFrequency,
                   panel.data[j].testScenario.threatEventFrequency) =>
                  Leq(panel.data[i].ale, panel.data[j].ale)

\* C19: in local mode a susceptibility or SLEF baseline in [0, 100] is perturbed,
\* at every point of the curve, to a number strictly between 0 and 100
C19_PerturbedInsideUnit ==
    (analysis # NoAnalysis /\ analysis.mode = "local"
        /\ analysis.selectedFactor \in {"susceptibility", "slef"}
        /\ Leq(Zero, editedScenario[analysis.selectedFactor])
        /\ Leq(editedScenario[analysis.selectedFactor], Hundred)) =>
        \A k \in 1..Len(panel.data) :
            LET x == panel.data[k].testScenario[analysis.selectedFactor]
            IN  x # NaN /\ Less(Zero, x) /\ Less(x, Hundred)

\* C20: in joint mode every point of the curve has the selected and the coupled
\* factor varied to the tested percentage of their own baselines (logit-scaled for a
\* percentage factor in local mode) and all other factors at baseline
C20_JointPerturbsBoth ==
    (analysis # NoAnalysis /\ analysis.jointMode
        /\ analysis.coupledFactor # analysis.selectedFactor) =>
        \A k \in 1..Len(panel.data) : \A f \in FAIRFactor :
            panel.data[k].testScenario[f] =
                IF f \in {analysis.selectedFactor, analysis.coupledFactor}
                THEN Sens_applyVariation(editedScenario, editedScenario, analysis.mode, f,
                                         panel.data[k].percentage)
                ELSE editedScenario[f]

\* C21: the nine contributions shown in the variance panel are numbers between 0
\* and 100 and add up to 100
C21_ContributionsSumTo100 ==
    (analysis # NoAnalysis /\ analysis.showGlobalTab) =>
        /\ \A f \in FAIRFactor :
              /\ panel.globalVariance[f] # NaN
              /\ Leq(Zero, panel.globalVariance[f])
              /\ Leq(panel.globalVariance[f], Hundred)
        /\ (\A f \in FAIRFactor : panel.globalVariance[f] # NaN) =>
              SumOver(panel.globalVariance, FAIRFactor) = Hundred

\* C22: with a numeric target the solution is a point of the curve at the least
\* distance from the target, and its actualValue is the value the selected factor
\* had in the test scenario of that point
C22_ClosestPointAndItsValue ==
    (analysis # NoAnalysis /\ analysis.targetALE # EmptyInput) =>
        \E k \in 1..Len(panel.data) :
            /\ panel.solution.percentage = panel.data[k].point.percentage
            /\ panel.solution.ale = panel.data[k].point.ale
            /\ panel.solution.ale # NaN
            /\ \A j \in 1..Len(panel.data) :
                  /\ panel.data[j].point.ale # NaN
                  /\ LET dk == Minus(panel.data[k].point.ale, analysis.targetALE)
                         dj == Minus(panel.data[j].point.ale, analysis.targetALE)
                     IN  Leq(Times(dk, dk), Times(dj, dj))
            /\ panel.solution.actualValue =
                  panel.data[k].testScenario[analysis.selectedFactor]

\* C29: in joint mode the coupled factor is not the selected factor, and at every
\* point of the curve the selected factor carries the variation applied once
C29_CoupledDiffersFromSelected ==
    (analysis # NoAnalysis /\ analysis.jointMode) =>
        /\ analysis.coupledFactor # analysis.selectedFactor
        /\ \A k \in 1..Len(panel.data) :
              panel.data[k].testScenario[analysis.selectedFactor] =
                  Sens_applyVariation(editedScenario, editedScenario, analysis.mode,
                                      analysis.selectedFactor, panel.data[k].percentage)

====
